---- MODULE Spec2Model ----
(***************************************************************************)
(* Session and registry state machine of the RTMP server in src/rtmp.py.   *)
(*                                                                         *)
(* Every connection is served by one coroutine (RTMPServer.handle_client)  *)
(* on a single asyncio event loop.  A coroutine runs without interruption  *)
(* from one await to the next, so each action below is the code between    *)
(* two suspension points (a socket read, or the drain after a socket       *)
(* write); pc[s] is the suspension point session s is waiting at.          *)
(* out[s] is the sequence of messages written to the socket of session s.  *)
(* The AMF0 codec (module amf) is an external collaborator: commands enter *)
(* the model already decoded.                                              *)
(***************************************************************************)
EXTENDS Integers, Sequences, FiniteSets, TLC

\* ---------------------------------------------------------------- bounds
MaxOps == 3          \* messages the server dispatches in one run (Spec)
MaxPubOps == 4       \* messages the server dispatches in one run (PubSpec)
MaxFlowOps == 7      \* messages the server dispatches in one run (FlowSpec)
MaxChunks == 3       \* chunks the server reads in one run (ChunkSpec)
MaxHdrChunks == 2    \* chunks the server reads in one run (HdrSpec)
MaxLoopMsgs == 2     \* messages writeMessage writes in one run (LoopSpec)
MaxMediaOps == 3     \* audio and video messages in one run (MediaSpec)
MaxAckChunks == 3    \* chunks the server reads in one run (AckSpec)
MaxIsoOps == 2       \* messages the server dispatches in one run (IsoSpec)
MaxIsoChunks == 2    \* chunks the server reads in one run (IsoSpec)
MaxWriteMsgs == 2
MaxTimeChunks == 4   \* chunks the client of TimeSpec sends
MaxTicks == 3        \* times the clock of TimeSpec advances    \* messages writeMessage writes in one run (WriteSpec)

\* ------------------------------------------------------- program constants
WINDOW_ACK_SIZE == 5000000
PEER_BANDWIDTH == 5000000
LIMIT_TYPE_DYNAMIC == 2
OUT_CHUNK_SIZE == 4096
CHUNK_SIZE == 128                \* default inbound chunk size
MAX_CHUNK_SIZE == 10485760
PACKET_TIMEOUT == 120            \* clearPayloadIfTimeout(client_id, 120)
RTMP_TYPE_SET_CHUNK_SIZE == 1
RTMP_TYPE_ACKNOWLEDGEMENT == 3
RTMP_TYPE_WINDOW_ACKNOWLEDGEMENT_SIZE == 5
RTMP_TYPE_METADATA == 22
EXT_TIMESTAMP == 16777215        \* 0xffffff
PROTOCOL_CHANNEL_ID == 2
AUDIO == 8                       \* Message.AUDIO
FULL == 0                        \* Header.FULL
MESSAGE == 64                    \* Header.MESSAGE
TIME == 128                      \* Header.TIME
SEPARATOR == 192                 \* Header.SEPARATOR
RTMP_SIG_SIZE == 1536            \* length of C1, S1, C2 and S2
MESSAGE_FORMAT_0 == 0

\* ------------------------------------------------------------ input sets
Clients == {1, 2}
Apps == {"a", "b"}
NoApp == "<absent>"          \* connect whose command object has no app
AppArgs == Apps \cup {"", NoApp}
Keys == {"", "k"}
NoMode == "<absent>"         \* publish with a single argument
ModeArgs == {NoMode, "live", "record", "append"}
StreamIds == {0, 1}           \* message stream ids a client uses
PubStreamIds == {1}
AudioKinds == {"aac_seq", "audio_frame"}
VideoKinds == {"avc_seq", "video_frame"}
MetaKinds == {"onMetaData", "other_type", "other_cmd"}

VARIABLES
    pc,                 \* position of the coroutine of each session
    client_states,      \* RTMPServer.client_states: ids in the session table
    LiveUsers,          \* module-level registry, a dict in insertion order
    app,                \* ClientState.app
    stream_mode,        \* ClientState.stream_mode ("" is None)
    streamPath,         \* ClientState.streamPath
    publishStreamId,    \* ClientState.publishStreamId
    publishStreamPath,  \* ClientState.publishStreamPath as <<app, key>>
    streams,            \* ClientState.streams
    metaDataPayload,    \* ClientState.metaDataPayload is not None
    aacSequenceHeader,  \* ClientState.aacSequenceHeader is not None
    avcSequenceHeader,  \* ClientState.avcSequenceHeader is not None
    audioCodec,         \* ClientState.audioCodec
    audioSampleRate,    \* ClientState.audioSampleRate
    audioChannels,      \* ClientState.audioChannels
    videoCodec,         \* ClientState.videoCodec
    out,                \* messages written to the session's socket, in order
    last,               \* the message the session's dispatcher handled last
    played,             \* the last play the session had accepted: its app,
                        \* and whether the publisher had sent no media yet
    ops,                \* messages dispatched so far, per session
    chunk_size,         \* ClientState.chunk_size (inbound)
    IncomingPackets,    \* ClientState.IncomingPackets: csid -> packet
    inAckSize,          \* ClientState.inAckSize
    inLastAck,          \* ClientState.inLastAck
    window_acknowledgement_size,
    received,           \* packets handed to handle_rtmp_packet, in order
    rx,                 \* what get_chunk_data read for the last chunk
    reads,              \* chunks read so far, per session
    wire,               \* bytes waiting in the session's StreamReader
    lastWriteHeaders,   \* ClientState.lastWriteHeaders: stream id -> header
    nextChannelId,      \* ClientState.nextChannelId
    sent,               \* messages given to writeMessage, in order
    wrote,              \* the chunks writeMessage wrote: fmt, extended or not
    writer,             \* the session's StreamWriter: "open" until close()
    c1_data,            \* c1_data of perform_handshake
    clock,              \* time.time(), in seconds
    last_received_time, \* packet['last_received_time']: csid -> seconds
    bitop,              \* a Bitop object and what its last call returned
    avc_info            \* what read_h264_specific_config returned, and for
                        \* which stream

sessVars == <<app, stream_mode, streamPath, publishStreamId, publishStreamPath,
              streams>>
mediaVars == <<metaDataPayload, aacSequenceHeader, avcSequenceHeader,
               audioCodec, videoCodec, audioSampleRate, audioChannels>>
writeVars == <<lastWriteHeaders, nextChannelId, sent, wrote>>
shakeVars == <<writer, c1_data>>
timeVars == <<clock, last_received_time>>
chunkVars == <<chunk_size, IncomingPackets, inAckSize, inLastAck,
               window_acknowledgement_size, received, rx, reads, wire,
               writeVars, shakeVars, timeVars, bitop, avc_info>>
vars == <<pc, client_states, LiveUsers, sessVars, mediaVars, out, last,
          played, ops, chunkVars>>

\* -------------------------------------------------------------- messages
Msg(t, level, code, arg, lim, a, k) ==
    [t |-> t, level |-> level, code |-> code, arg |-> arg, lim |-> lim,
     app |-> a, key |-> k]

WindowAckMsg == Msg("WindowAckSize", "", "", WINDOW_ACK_SIZE, 0, "", "")
SetChunkSizeMsg == Msg("SetChunkSize", "", "", OUT_CHUNK_SIZE, 0, "", "")
SetPeerBandwidthMsg ==
    Msg("SetPeerBandwidth", "", "", PEER_BANDWIDTH, LIMIT_TYPE_DYNAMIC, "", "")
ConnectResultMsg ==
    Msg("_result", "status", "NetConnection.Connect.Success", 0, 0, "", "")
CreateStreamResultMsg(n) == Msg("_result", "", "createStream", n, 0, "", "")
StatusMsg(sid, level, code, a, k) == Msg("onStatus", level, code, sid, 0, a, k)
MetaDataMsg(sid) == Msg("data", "", "onMetaData", sid, 0, "", "")

\* an audio or video message relayed to a player (no code path writes one)
MediaMsg(t, kind) == Msg(t, "", kind, 0, 0, "", "")

NoMessage == [cmd |-> "none", a1 |-> "", a2 |-> "", n |-> 0]
In(cmd, a1, a2, n) == [cmd |-> cmd, a1 |-> a1, a2 |-> a2, n |-> n]

NotPlaying == [app |-> "", first |-> FALSE]

\* no chunk read yet
NoChunk == [basic |-> <<>>, fmt |-> 0, cid |-> 0, sid |-> <<>>, ext |-> FALSE,
            n |-> 0]

RECURSIVE SumOps(_, _)
SumOps(f, S) ==
    IF S = {} THEN 0
    ELSE LET x == CHOOSE x \in S : TRUE IN f[x] + SumOps(f, S \ {x})

OpsTotal == SumOps(ops, Clients)

Min(a, b) == IF a < b THEN a ELSE b

\* -------------------------------------------------------------- registry
InLiveUsers(a) == \E i \in DOMAIN LiveUsers : LiveUsers[i].app = a

LiveUsersAt(a) ==
    LiveUsers[CHOOSE i \in DOMAIN LiveUsers : LiveUsers[i].app = a]

Owner(a) == IF InLiveUsers(a) THEN LiveUsersAt(a).client_id ELSE 0

RemoveAt(L, i) == [j \in 1..(Len(L) - 1) |-> IF j < i THEN L[j] ELSE L[j + 1]]

\* the loop of disconnect: delete the first entry naming cid, then break
\* a session's disconnect deleting the entry of its current app instead
DelByApp(L, cid) ==
    IF \E i \in DOMAIN L : L[i].app = app[cid]
    THEN RemoveAt(L, CHOOSE i \in DOMAIN L : L[i].app = app[cid])
    ELSE L

\* LiveUsers[e.app] = e: a new key goes last, a present key keeps its place
DictSet(L, e) ==
    IF \E i \in DOMAIN L : L[i].app = e.app
    THEN [i \in DOMAIN L |-> IF L[i].app = e.app THEN e ELSE L[i]]
    ELSE Append(L, e)

\* a disconnect that deletes the first entry, whichever session it names
DelFirst_head(L, cid) == IF L = <<>> THEN L ELSE Tail(L)

DelFirst(L, cid) ==
    IF \E i \in DOMAIN L : L[i].client_id = cid
    THEN LET i == CHOOSE i \in DOMAIN L :
                    /\ L[i].client_id = cid
                    /\ \A j \in 1..(i - 1) : L[j].client_id # cid
         IN RemoveAt(L, i)
    ELSE L

\* no sequence header has been parsed
NoFields ==
    [profile |-> 0, level |-> 0, poc |-> 0, w |-> 0, h |-> 0,
     frame_mbs_only |-> 0, crop |-> <<>>]

\* info of read_h264_specific_config before its loop (lines 148-154);
\* profile is -1 while the key is not set, and level counts tenths
NoInfo ==
    [width |-> 0, height |-> 0, level |-> 0, profile |-> -1, compat |-> 0,
     nalu |-> 0, nb_sps |-> 0, avc_ref_frames |-> 0]

\* no Bitop has been constructed
NoBitop ==
    [buffer |-> <<>>, bufpos |-> 0, bufoff |-> 0, iserro |-> FALSE,
     call |-> "", n |-> 0, v |-> 0]

Init ==
    /\ pc = [s \in Clients |-> "free"]
    /\ client_states = {}
    /\ LiveUsers = <<>>
    /\ app = [s \in Clients |-> ""]
    /\ stream_mode = [s \in Clients |-> ""]
    /\ streamPath = [s \in Clients |-> ""]
    /\ publishStreamId = [s \in Clients |-> 0]
    /\ publishStreamPath = [s \in Clients |-> <<"", "">>]
    /\ streams = [s \in Clients |-> 0]
    /\ metaDataPayload = [s \in Clients |-> FALSE]
    /\ aacSequenceHeader = [s \in Clients |-> FALSE]
    /\ avcSequenceHeader = [s \in Clients |-> FALSE]
    /\ audioCodec = [s \in Clients |-> 0]
    /\ videoCodec = [s \in Clients |-> 0]
    /\ audioSampleRate = [s \in Clients |-> 0]
    /\ audioChannels = [s \in Clients |-> 1]
    /\ out = [s \in Clients |-> <<>>]
    /\ last = [s \in Clients |-> NoMessage]
    /\ played = [s \in Clients |-> NotPlaying]
    /\ ops = [s \in Clients |-> 0]
    /\ chunk_size = [s \in Clients |-> CHUNK_SIZE]
    /\ IncomingPackets = [s \in Clients |-> <<>>]
    /\ inAckSize = [s \in Clients |-> 0]
    /\ inLastAck = [s \in Clients |-> 0]
    /\ window_acknowledgement_size = [s \in Clients |-> WINDOW_ACK_SIZE]
    /\ received = [s \in Clients |-> <<>>]
    /\ rx = [s \in Clients |-> NoChunk]
    /\ reads = [s \in Clients |-> 0]
    /\ wire = [s \in Clients |-> <<>>]
    /\ lastWriteHeaders = [s \in Clients |-> <<>>]
    /\ nextChannelId = [s \in Clients |-> PROTOCOL_CHANNEL_ID + 1]
    /\ sent = [s \in Clients |-> <<>>]
    /\ wrote = [s \in Clients |-> <<>>]
    /\ writer = [s \in Clients |-> "open"]
    /\ c1_data = [s \in Clients |-> <<>>]
    /\ clock = 0
    /\ last_received_time = [s \in Clients |-> <<>>]
    /\ bitop = NoBitop
    /\ avc_info = [fields |-> NoFields, result |-> NoInfo]

\* ------------------------------------------------------------ disconnect
\* RTMPServer.disconnect: the registry loop runs, then line 201 subscripts
\* the ClientState object and raises TypeError, so the session stays in
\* client_states and the lines after it never run.
Disconnect(s) ==
    /\ LiveUsers' = DelFirst(LiveUsers, s)
    /\ pc' = [pc EXCEPT ![s] = "closed"]
    /\ UNCHANGED client_states

\* ---------------------------------------------------------- handle_client
Accept(s) ==
    /\ pc[s] = "free"
    /\ pc' = [pc EXCEPT ![s] = "handshake"]
    /\ client_states' = client_states \cup {s}
    /\ UNCHANGED <<LiveUsers, sessVars, mediaVars, out, last, played, ops>>

HandshakeDone(s) ==
    /\ pc[s] = "handshake"
    /\ pc' = [pc EXCEPT ![s] = "loop"]
    /\ UNCHANGED <<client_states, LiveUsers, sessVars, mediaVars, out, last,
                   played, ops>>

\* the suspension points of perform_handshake: the reads of C0, C1 and C2,
\* the drains of S0, S1 and S2, and wait_closed after a refused C0
HandshakePcs ==
    {"handshake", "bad_c0", "c1", "s0", "s1", "s2", "c2_digest"}

\* handle_client without the return of line 163
HandshakeTimeout_noReturn(s) ==
    /\ pc[s] \in HandshakePcs
    /\ LiveUsers' = DelFirst(LiveUsers, s)
    /\ pc' = [pc EXCEPT ![s] = "loop"]
    /\ UNCHANGED <<client_states, sessVars, mediaVars, out, last, played, ops>>

\* wait_for cancels perform_handshake after 5 seconds, wherever it waits;
\* handle_client calls disconnect and returns
HandshakeTimeout(s) ==
    /\ pc[s] \in HandshakePcs
    /\ Disconnect(s)
    /\ UNCHANGED <<sessVars, mediaVars, out, last, played, ops>>

\* the read of the next chunk fails (EOF, reset): the loop breaks
Eof(s) ==
    /\ pc[s] = "loop"
    /\ Disconnect(s)
    /\ UNCHANGED <<sessVars, mediaVars, out, last, played, ops>>

\* ------------------------------------------------ handle_connect_command
Dispatched(s, m) ==
    /\ last' = [last EXCEPT ![s] = m]
    /\ ops' = [ops EXCEPT ![s] = @ + 1]

Send(s, m) == out' = [out EXCEPT ![s] = Append(out[s], m)]

\* the test of the stored app left out
AppEmpty_never(a) == FALSE

AppEmpty(a) == a = ""

\* connect: the app is stored before it is tested; an empty app raises,
\* otherwise Window Ack Size is written and the coroutine waits for drain
Connect(s, a) ==
    /\ pc[s] = "loop"
    /\ Dispatched(s, In("connect", a, "", 0))
    /\ LET newapp == IF a = NoApp THEN app[s] ELSE a
       IN /\ app' = [app EXCEPT ![s] = newapp]
          /\ IF AppEmpty(newapp)
             THEN Disconnect(s) /\ UNCHANGED out
             ELSE /\ Send(s, WindowAckMsg)
                  /\ pc' = [pc EXCEPT ![s] = "conn_scs"]
                  /\ UNCHANGED <<client_states, LiveUsers>>
    /\ UNCHANGED <<stream_mode, streamPath, publishStreamId,
                   publishStreamPath, streams, mediaVars, played>>

ConnectSetChunkSize(s) ==
    /\ pc[s] = "conn_scs"
    /\ Send(s, SetChunkSizeMsg)
    /\ pc' = [pc EXCEPT ![s] = "conn_spb"]
    /\ UNCHANGED <<client_states, LiveUsers, sessVars, mediaVars, last,
                   played, ops>>

ConnectSetPeerBandwidth(s) ==
    /\ pc[s] = "conn_spb"
    /\ Send(s, SetPeerBandwidthMsg)
    /\ pc' = [pc EXCEPT ![s] = "conn_res"]
    /\ UNCHANGED <<client_states, LiveUsers, sessVars, mediaVars, last,
                   played, ops>>

ConnectRespond(s) ==
    /\ pc[s] = "conn_res"
    /\ Send(s, ConnectResultMsg)
    /\ pc' = [pc EXCEPT ![s] = "drain"]
    /\ UNCHANGED <<client_states, LiveUsers, sessVars, mediaVars, last,
                   played, ops>>

\* the drain of one of the three control writes of connect, or of an
\* Acknowledgement, raises: send() does not catch it, the loop breaks
SendError(s) ==
    /\ pc[s] \in {"conn_scs", "conn_spb", "conn_res", "ack"}
    /\ Disconnect(s)
    /\ UNCHANGED <<sessVars, mediaVars, out, last, played, ops>>

\* writeMessage returned (its drain finished, or failed and was swallowed),
\* or send_ack returned, and the handler has nothing left to do: back to
\* reading the next chunk
Resume(s) ==
    /\ pc[s] \in {"drain", "ack"}
    /\ pc' = [pc EXCEPT ![s] = "loop"]
    /\ UNCHANGED <<client_states, LiveUsers, sessVars, mediaVars, out, last,
                   played, ops>>

\* writeMessage returned and the handler raises DisconnectClientException
Raise(s) ==
    /\ pc[s] = "raise"
    /\ Disconnect(s)
    /\ UNCHANGED <<sessVars, mediaVars, out, last, played, ops>>

\* ------------------------------------------------- response_createStream
\* the counter left as it is
NextStreamId_same(n) == n

NextStreamId(n) == n + 1

CreateStream(s) ==
    /\ pc[s] = "loop"
    /\ Dispatched(s, In("createStream", "", "", 0))
    /\ streams' = [streams EXCEPT ![s] = NextStreamId(streams[s])]
    /\ Send(s, CreateStreamResultMsg(streams'[s]))
    /\ pc' = [pc EXCEPT ![s] = "drain"]
    /\ UNCHANGED <<client_states, LiveUsers, app, stream_mode, streamPath,
                   publishStreamId, publishStreamPath, mediaVars, played>>

\* -------------------------------------------------------- handle_publish
\* the stream key test left out
KeyEmpty_skipped(key) == FALSE

KeyEmpty(key) == key = ""

\* the registry test left out
AlreadyPublishing_never(a) == FALSE

AlreadyPublishing(a) == InLiveUsers(a)

RegistersPublisher(mode) == mode = "live"

Publish(s, key, modeArg, sid) ==
    LET mode == IF modeArg = NoMode THEN "live" ELSE modeArg
        entry == [app |-> app[s], client_id |-> s, stream_mode |-> mode,
                  stream_path |-> key, publish_stream_id |-> sid]
    IN
    /\ pc[s] = "loop"
    /\ Dispatched(s, In("publish", key, modeArg, sid))
    /\ stream_mode' = [stream_mode EXCEPT ![s] = mode]
    /\ streamPath' = [streamPath EXCEPT ![s] = key]
    /\ publishStreamId' = [publishStreamId EXCEPT ![s] = sid]
    /\ publishStreamPath' = [publishStreamPath EXCEPT ![s] = <<app[s], key>>]
    /\ IF KeyEmpty(key)
       THEN /\ Send(s, StatusMsg(sid, "error",
                                 "NetStream.publish.Unauthorized", "", ""))
            /\ pc' = [pc EXCEPT ![s] = "raise"]
            /\ UNCHANGED LiveUsers
       ELSE IF RegistersPublisher(mode) /\ AlreadyPublishing(app[s])
       THEN /\ Send(s, StatusMsg(sid, "error",
                                 "NetStream.Publish.BadName", "", ""))
            /\ pc' = [pc EXCEPT ![s] = "raise"]
            /\ UNCHANGED LiveUsers
       ELSE /\ LiveUsers' = IF RegistersPublisher(mode)
                            THEN DictSet(LiveUsers, entry)
                            ELSE LiveUsers
            /\ Send(s, StatusMsg(sid, "status",
                                 "NetStream.Publish.Start", app[s], key))
            /\ pc' = [pc EXCEPT ![s] = "drain"]
    /\ UNCHANGED <<client_states, app, streams, mediaVars, played>>

\* --------------------------------------------------------- handle_onPlay
\* the refusal without its raise: the session goes on reading
PlayRefused_noRaise(s) ==
    /\ Send(s, StatusMsg(publishStreamId[s], "error",
                         "NetStream.Play.BadName", "", ""))
    /\ pc' = [pc EXCEPT ![s] = "drain"]
    /\ UNCHANGED played

PlayRefused(s) ==
    /\ Send(s, StatusMsg(publishStreamId[s], "error",
                         "NetStream.Play.BadName", "", ""))
    /\ pc' = [pc EXCEPT ![s] = "raise"]
    /\ UNCHANGED played

Play(s, sid) ==
    /\ pc[s] = "loop"
    /\ Dispatched(s, In("play", "", "", sid))
    /\ IF ~InLiveUsers(app[s])
       THEN PlayRefused(s)
       ELSE /\ played' = [played EXCEPT ![s] =
                             [app |-> app[s],
                              first |-> /\ audioCodec[Owner(app[s])] = 0
                                        /\ videoCodec[Owner(app[s])] = 0]]
            /\ IF metaDataPayload[Owner(app[s])]
               THEN /\ Send(s, MetaDataMsg(sid))
                    /\ pc' = [pc EXCEPT ![s] = "drain"]
               ELSE UNCHANGED <<out, pc>>
    /\ UNCHANGED <<client_states, LiveUsers, sessVars, mediaVars>>

\* ------------------------------------------------------------- av.Bitop
AAC_SAMPLE_RATE ==
    <<96000, 88200, 64000, 48000, 44100, 32000, 24000, 22050, 16000, 12000,
      11025, 8000, 7350, 0, 0, 0>>
AAC_CHANNELS == <<0, 1, 2, 3, 4, 5, 6, 8>>
AUDIO_SOUND_RATE == <<5512, 11025, 22050, 44100>>

\* bit i of the buffer, bit 0 being the high bit of the first byte
BitAt(buf, i) == (buf[(i \div 8) + 1] \div (2 ^ (7 - (i % 8)))) % 2

RECURSIVE BitsValue(_, _, _)
BitsValue(buf, pos, n) ==
    IF n = 0 THEN 0
    ELSE BitsValue(buf, pos, n - 1) * 2 + BitAt(buf, pos + n - 1)

\* Bitop.read(n) with the reader at bit pos: the n bits as a number, or 0
\* when the buffer ends before n bits were read
BitRead(buf, pos, n) ==
    IF pos + n <= 8 * Len(buf) THEN BitsValue(buf, pos, n) ELSE 0

\* where the reader is after Bitop.read(n)
BitNext(buf, pos, n) == Min(pos + n, 8 * Len(buf))

\* get_object_type: the value and the position after it
get_object_type(buf, pos) ==
    IF BitRead(buf, pos, 5) = 31
    THEN [v |-> BitRead(buf, BitNext(buf, pos, 5), 6) + 32,
          pos |-> BitNext(buf, BitNext(buf, pos, 5), 6)]
    ELSE [v |-> BitRead(buf, pos, 5), pos |-> BitNext(buf, pos, 5)]

\* get_sample_rate: 24 bits after the index 15 unless they are 0, else the
\* table entry
get_sample_rate(buf, pos) ==
    LET index == BitRead(buf, pos, 4)
        after == BitNext(buf, pos, 4)
    IN IF index = 15
       THEN [v |-> IF BitRead(buf, after, 24) # 0
                   THEN BitRead(buf, after, 24)
                   ELSE AAC_SAMPLE_RATE[index + 1],
             pos |-> BitNext(buf, after, 24)]
       ELSE [v |-> AAC_SAMPLE_RATE[index + 1], pos |-> after]

\* read_aac_specific_config; channels is -1 when the key is not set
read_aac_specific_config(h) ==
    LET ot == get_object_type(h, BitNext(h, 0, 16))
        sr == get_sample_rate(h, ot.pos)
        chan_config == BitRead(h, sr.pos, 4)
        after == BitNext(h, sr.pos, 4)
        channels == IF chan_config < Len(AAC_CHANNELS)
                    THEN AAC_CHANNELS[chan_config + 1] ELSE -1
        sr2 == get_sample_rate(h, after)
    IN IF ot.v \in {5, 29}
       THEN [object_type |-> get_object_type(h, sr2.pos).v,
             sample_rate |-> sr2.v, channels |-> channels]
       ELSE [object_type |-> ot.v, sample_rate |-> sr.v,
             channels |-> channels]

\* read_h264_specific_config sets info['profile'] at the end of a pass of
\* its loop; the first pass breaks before that when the record declares no
\* SPS (byte 10, low five bits) or the NAL byte (byte 13) is not 0x67
H264HasProfile(h) ==
    /\ BitRead(h, 80, 8) % 32 # 0
    /\ BitRead(h, 104, 8) = 103

\* Bitop.read_golomb with the reader at bit pos: zero bits are counted until
\* a read of one bit returns 1 or fails, then as many bits are read
RECURSIVE GolombZeros(_, _)
GolombZeros(buf, pos) ==
    IF pos >= 8 * Len(buf) \/ BitAt(buf, pos) = 1 THEN 0
    ELSE 1 + GolombZeros(buf, pos + 1)

read_golomb(buf, pos) ==
    LET n == GolombZeros(buf, pos)
        after == BitNext(buf, pos + n, 1)
    IN [v |-> (2 ^ n) + BitRead(buf, after, n) - 1,
        pos |-> BitNext(buf, after, n)]

\* where the reader is after k calls of read_golomb
RECURSIVE SkipGolombs(_, _, _)
SkipGolombs(buf, pos, k) ==
    IF k <= 0 THEN pos
    ELSE SkipGolombs(buf, read_golomb(buf, pos).pos, k - 1)

\* lines 174-187: the fields only the high profiles have
HighProfileFields(h, pos) ==
    LET cf_idc == read_golomb(h, pos)
        a == IF cf_idc.v = 3 THEN BitNext(h, cf_idc.pos, 1) ELSE cf_idc.pos
        b == BitNext(h, SkipGolombs(h, a, 2), 1)
    IN IF BitRead(h, b, 1) # 0
       THEN BitNext(h, BitNext(h, b, 1), IF cf_idc.v # 3 THEN 8 ELSE 12)
       ELSE BitNext(h, b, 1)

\* lines 191-201: the fields of the picture order count type
OrderCountFields(h, pos) ==
    LET case == read_golomb(h, pos)
        a == SkipGolombs(h, BitNext(h, case.pos, 1), 3)
        num_ref_frames == read_golomb(h, a)
    IN IF case.v = 0 THEN read_golomb(h, case.pos).pos
       ELSE IF case.v = 1
       THEN SkipGolombs(h, num_ref_frames.pos, num_ref_frames.v)
       ELSE case.pos

\* one pass of the loop of read_h264_specific_config (lines 157-228) with
\* the reader at bit pos, and the passes after it: the loop ends only at
\* one of its two breaks
RECURSIVE H264Pass(_, _, _)
H264Pass(h, pos, inf) ==
    LET profile_idc == BitRead(h, pos, 8)
        p1 == BitNext(h, pos, 8)
        p2 == BitNext(h, p1, 8)
        level == BitRead(h, p2, 8)
        p3 == BitNext(h, p2, 8)
        p4 == BitNext(h, p3, 8)
        i1 == [inf EXCEPT !.compat = BitRead(h, p1, 8),
                          !.nalu = (BitRead(h, p3, 8) % 4) + 1,
                          !.nb_sps = BitRead(h, p4, 8) % 32]
        p5 == BitNext(h, BitNext(h, p4, 8), 16)
        p6 == BitNext(h, BitNext(h, BitNext(h, p5, 8), 8), 8)
        p7 == read_golomb(h, p6).pos
        p8 == IF profile_idc \in {100, 110, 122, 244, 44, 83, 86, 118}
              THEN HighProfileFields(h, p7) ELSE p7
        p9 == OrderCountFields(h, read_golomb(h, p8).pos)
        avc_ref_frames == read_golomb(h, p9)
        width == read_golomb(h, BitNext(h, avc_ref_frames.pos, 1))
        height == read_golomb(h, width.pos)
        frame_mbs_only == BitRead(h, height.pos, 1)
        p10 == IF frame_mbs_only = 0
               THEN BitNext(h, BitNext(h, height.pos, 1), 1)
               ELSE BitNext(h, height.pos, 1)
        p11 == BitNext(h, p10, 1)
        cropped == BitRead(h, p11, 1) # 0
        crop_left == read_golomb(h, BitNext(h, p11, 1))
        crop_right == read_golomb(h, crop_left.pos)
        crop_top == read_golomb(h, crop_right.pos)
        crop_bottom == read_golomb(h, crop_top.pos)
        crops == IF cropped THEN crop_left.v + crop_right.v ELSE 0
        cropsV == IF cropped THEN crop_top.v + crop_bottom.v ELSE 0
    IN IF i1.nb_sps = 0 \/ BitRead(h, p5, 8) # 103 THEN i1
       ELSE H264Pass(h, IF cropped THEN crop_bottom.pos
                        ELSE BitNext(h, p11, 1),
                     [i1 EXCEPT !.avc_ref_frames = avc_ref_frames.v,
                                !.profile = profile_idc,
                                !.level = level,
                                !.width = (width.v + 1) * 16 - crops * 2,
                                !.height = (2 - frame_mbs_only)
                                               * (height.v + 1) * 16
                                           - cropsV * 2])

\* read_h264_specific_config: 48 bits are passed over, then the loop runs
read_h264_specific_config(h) == H264Pass(h, BitNext(h, 0, 48), NoInfo)

\* ----------------------------------- handle_audio_data, handle_video_data
\* the payloads the kinds of audio and video messages stand for
AudioPayload(kind) ==
    CASE kind = "aac_seq" -> <<175, 0, 18, 16>>
      [] kind = "audio_frame" -> <<175, 1, 33>>
      [] kind = "aac_seq_cut" -> <<175, 0, 18>>
      [] kind = "aac_seq_short" -> <<175>>

VideoPayload(kind) ==
    CASE kind = "avc_seq" ->
             <<23, 0, 0, 0, 0, 1, 66, 0, 30, 255, 225, 0, 4, 103, 66, 0, 30>>
      [] kind = "video_frame" -> <<39, 1, 0, 0, 0, 5>>
      [] kind = "avc_seq_no_sps" -> <<23, 0, 0, 0, 0, 1, 66, 0, 30, 255, 224>>
      [] kind = "avc_seq_cut" ->
             <<23, 0, 0, 0, 0, 1, 66, 0, 30, 255, 225, 0, 4, 103, 66>>
      [] kind = "avc_short" -> <<23>>

\* audioSampleRate of lines 510-526, for the first audio message
FirstSampleRate(sound_format, sound_rate) ==
    IF sound_format \in {4, 11} THEN 16000
    ELSE IF sound_format \in {5, 7, 8, 14} THEN 8000
    ELSE AUDIO_SOUND_RATE[sound_rate + 1]

\* line 538: client_state.audioChannels = info['sample_rate']
ConfigChannels(info) == info.sample_rate

\* handle_audio_data: the descriptor is set from the first message; a
\* sequence header is cached and then parsed; an index past the end of the
\* payload raises, which get_chunk_data turns into a disconnect
Audio(s, kind) ==
    LET payload == AudioPayload(kind)
        sound_format == payload[1] \div 16
        sound_type == payload[1] % 2
        sound_rate == (payload[1] \div 4) % 4
        first == audioCodec[s] = 0
        tested == sound_format \in {10, 13}
        isSeq == tested /\ Len(payload) >= 2 /\ payload[2] = 0
        raises == \/ tested /\ Len(payload) < 2
                  \/ isSeq /\ sound_format = 13 /\ Len(payload) < 12
        info == read_aac_specific_config(payload)
    IN
    /\ pc[s] = "loop"
    /\ Dispatched(s, In("audio", kind, "", 0))
    /\ audioCodec' = [audioCodec EXCEPT ![s] =
                         IF first THEN sound_format ELSE @]
    /\ aacSequenceHeader' =
           [aacSequenceHeader EXCEPT ![s] = IF isSeq THEN TRUE ELSE @]
    /\ audioSampleRate' =
           [audioSampleRate EXCEPT ![s] =
               IF isSeq /\ sound_format = 10 THEN info.sample_rate
               ELSE IF isSeq THEN 48000
               ELSE IF first THEN FirstSampleRate(sound_format, sound_rate)
               ELSE @]
    /\ audioChannels' =
           [audioChannels EXCEPT ![s] =
               IF isSeq /\ sound_format = 10 THEN ConfigChannels(info)
               ELSE IF isSeq /\ ~raises THEN payload[12]
               ELSE IF first THEN sound_type + 1
               ELSE @]
    /\ IF raises
       THEN Disconnect(s)
       ELSE UNCHANGED <<pc, client_states, LiveUsers>>
    /\ UNCHANGED <<sessVars, metaDataPayload, avcSequenceHeader, videoCodec,
                   out, played>>

\* getAVCProfileName(info) raises KeyError when info has no 'profile'
NoProfile(h) == ~H264HasProfile(h)

\* handle_video_data for a payload without an extended header, or with one
\* of a FourCC that is not supported (the handler returns), and for codec 7
\* when it is a sequence header: the payload is cached, then parsed; the
\* codec is stored when the handler gets to its end
Video(s, kind) ==
    LET payload == VideoPayload(kind)
        isExHeader == payload[1] >= 128
        frame_type == (payload[1] \div 16) % 8
        codec_id == payload[1] % 16
        tested == ~isExHeader /\ codec_id = 7 /\ frame_type = 1
        isSeq == tested /\ Len(payload) >= 2 /\ payload[2] = 0
        raises == \/ tested /\ Len(payload) < 2
                  \/ isSeq /\ NoProfile(payload)
    IN
    /\ pc[s] = "loop"
    /\ Dispatched(s, In("video", kind, "", 0))
    /\ avcSequenceHeader' =
           [avcSequenceHeader EXCEPT ![s] = IF isSeq THEN TRUE ELSE @]
    /\ videoCodec' = [videoCodec EXCEPT ![s] =
                         IF ~isExHeader /\ ~raises /\ @ = 0
                         THEN codec_id ELSE @]
    /\ IF raises
       THEN Disconnect(s)
       ELSE UNCHANGED <<pc, client_states, LiveUsers>>
    /\ UNCHANGED <<sessVars, metaDataPayload, aacSequenceHeader, audioCodec,
                   audioSampleRate, audioChannels, out, played>>

\* ------------------------------------------------------- handle_amf_data
\* "onMetaData": @setDataFrame / onMetaData with a complete data object;
\* "other_type": @setDataFrame with another type, the handler returns;
\* "other_cmd": another command, the payload is cached and the read of
\* inst['dataObj'] raises KeyError, which ends the session
MetaData(s, kind) ==
    /\ pc[s] = "loop"
    /\ Dispatched(s, In("data", kind, "", 0))
    /\ metaDataPayload' =
           [metaDataPayload EXCEPT ![s] = IF kind = "other_type" THEN @ ELSE TRUE]
    /\ IF kind = "other_cmd"
       THEN Disconnect(s)
       ELSE UNCHANGED <<pc, client_states, LiveUsers>>
    /\ UNCHANGED <<sessVars, aacSequenceHeader, avcSequenceHeader, audioCodec,
                   videoCodec, audioSampleRate, audioChannels, out, played>>

\* ------------------------------------------------- get_chunk_data (bytes)
\* int.from_bytes(b, byteorder='big').  The integers of the model are 32
\* bits wide: a value of 2^30 or more is kept as 2^30 (Huge), which is
\* above every number the decoder compares a field with.
Huge == 1073741824

RECURSIVE FromBytesBig(_)
FromBytesBig(b) ==
    IF b = <<>> THEN 0
    ELSE LET high == FromBytesBig(SubSeq(b, 1, Len(b) - 1))
         IN IF high >= Huge \div 256 THEN Huge ELSE high * 256 + b[Len(b)]

\* fmt = (chunk_data[0] & 0b11000000) >> 6
Fmt(w) == w[1] \div 64

\* bytes of the basic header: 1, 2 or 3 by the low six bits of the first
BasicLen(w) ==
    IF w[1] % 64 = 0 THEN 2 ELSE IF w[1] % 64 = 1 THEN 3 ELSE 1

\* the 3-byte form read as the claim states it
Cid_spec(w) ==
    IF w[1] % 64 = 0 THEN 64 + w[2]
    ELSE IF w[1] % 64 = 1 THEN 64 + w[2] + w[3] * 256
    ELSE w[1] % 64

\* cid as lines 221-229 compute it: the 3-byte form is
\* (64 + chunk_data[1] + chunk_data[2]) << 8
Cid(w) ==
    IF w[1] % 64 = 0 THEN 64 + w[2]
    ELSE IF w[1] % 64 = 1 THEN (64 + w[2] + w[3]) * 256
    ELSE w[1] % 64

\* bytes of the message header that follows the basic header
HeaderLen(fmt) ==
    IF fmt = 0 THEN 11 ELSE IF fmt = 1 THEN 7 ELSE IF fmt = 2 THEN 3 ELSE 0

createPacket(cid, fmt) ==
    [fmt |-> fmt, cid |-> cid, timestamp |-> 0, extended_timestamp |-> 0,
     payload_length |-> 0, msg_type_id |-> 0, msg_stream_id |-> 0,
     payload |-> <<>>]

\* IncomingPackets[cid], created on the first chunk of the cid
PacketOf(P, w) ==
    IF Cid(w) \in DOMAIN P THEN P[Cid(w)] ELSE createPacket(Cid(w), Fmt(w))

\* the stream id bytes read little-endian
StreamIdOf_little(b) == b[1] + 256 * b[2] + 65536 * b[3] + 16777216 * b[4]

\* msg_stream_id = int.from_bytes(streamID_bytes, byteorder='big')
StreamIdOf(b) == FromBytesBig(b)

\* the packet after the message header was read (lines 241-266)
ReadHeader(P, w) ==
    LET nb == BasicLen(w)
        fmt == Fmt(w)
        p0 == PacketOf(P, w)
        p1 == IF fmt <= 2
              THEN [p0 EXCEPT !.timestamp =
                                  FromBytesBig(SubSeq(w, nb + 1, nb + 3))]
              ELSE p0
        p2 == IF fmt <= 1
              THEN [p1 EXCEPT !.payload_length =
                                  FromBytesBig(SubSeq(w, nb + 4, nb + 6)),
                              !.msg_type_id = w[nb + 7],
                              !.payload = <<>>]
              ELSE p1
    IN IF fmt = 0
       THEN [p2 EXCEPT !.msg_stream_id = StreamIdOf(SubSeq(w, nb + 8, nb + 11))]
       ELSE p2

\* every chunk asking for the whole declared length
Want_whole(pk, fmt) == pk.payload_length

\* a chunk with nothing left to read asking for one byte
Want_one(pk, fmt) ==
    LET n == IF fmt <= 1 THEN pk.payload_length
             ELSE pk.payload_length - Len(pk.payload)
    IN IF n <= 0 THEN 1 ELSE n

\* payload_length of lines 270-278: the declared length for fmt 0 and 1,
\* what is left of it for fmt 2 and 3
Want(pk, fmt) ==
    IF fmt <= 1 THEN pk.payload_length
    ELSE pk.payload_length - Len(pk.payload)

\* line 281: the type test that raises
BadType(pk) == RTMP_TYPE_METADATA < pk.msg_type_id

\* line 286: four more bytes are read when the stored timestamp is 0xffffff
ReadsExtended(pk) == pk.timestamp = EXT_TIMESTAMP

\* chunks of the default size whatever the session's chunk size is
PayloadCount_default(pk, fmt, cs) ==
    IF BadType(pk) \/ Want(pk, fmt) <= 0 THEN 0
    ELSE Min(CHUNK_SIZE, Want(pk, fmt))

\* payload bytes the chunk reads (lines 296-298), pk being the packet
\* after the message header was read
PayloadCount(pk, fmt, cs) ==
    IF BadType(pk) \/ Want(pk, fmt) <= 0 THEN 0 ELSE Min(cs, Want(pk, fmt))

\* bytes one call of get_chunk_data takes from the reader
Used(pk, w, cs) ==
    BasicLen(w) + HeaderLen(Fmt(w))
    + (IF ~BadType(pk) /\ ReadsExtended(pk) THEN 4 ELSE 0)
    + PayloadCount(pk, Fmt(w), cs)

\* the reader holds every byte the call asks for
Readable(P, cs, w) ==
    /\ Len(w) >= 1
    /\ Len(w) >= BasicLen(w) + HeaderLen(Fmt(w))
    /\ Len(w) >= Used(ReadHeader(P, w), w, cs)

\* the packet when the call returns or dispatches (lines 286-305)
ReadPacket(pk, w, cs) ==
    LET at == BasicLen(w) + HeaderLen(Fmt(w))
        n == PayloadCount(pk, Fmt(w), cs)
        p4 == IF ReadsExtended(pk)
              THEN [pk EXCEPT !.extended_timestamp =
                                  FromBytesBig(SubSeq(w, at + 1, at + 4))]
              ELSE pk
    IN IF BadType(pk) THEN pk
       ELSE IF Want(pk, Fmt(w)) <= 0 THEN [p4 EXCEPT !.payload = <<>>]
       ELSE [p4 EXCEPT !.payload =
                 @ \o SubSeq(w, Len(w) - n + 1, Len(w))]

\* rtmp_packet of lines 319-330
RtmpPacket(pk) ==
    [fmt |-> pk.fmt, cid |-> pk.cid, timestamp |-> pk.timestamp,
     length |-> pk.payload_length, type |-> pk.msg_type_id,
     stream_id |-> pk.msg_stream_id, payload |-> pk.payload]

\* P[cid] = pk
PacketSet(P, cid, pk) ==
    [c \in DOMAIN P \cup {cid} |-> IF c = cid THEN pk ELSE P[c]]

\* clearPayloadIfTimeout: the payload of every packet in idle is dropped
Purged(P, idle) ==
    [c \in DOMAIN P |-> IF c \in idle THEN [P[c] EXCEPT !.payload = <<>>]
                        ELSE P[c]]

\* a purge that finds no packet too old
Stale_none(T, now) == {}

\* the csids clearPayloadIfTimeout finds too old at the time now, T being
\* the last_received_time of each packet
Stale(T, now) == {c \in DOMAIN T : now - T[c] >= PACKET_TIMEOUT}

\* message types handle_rtmp_packet sends to no handler (its else branch)
NoHandlerTypes == {0, 2, 4, 7, 10, 11, 12, 13, 14, 15, 16, 19, 21, 22}

\* message types whose handling is part of the chunk step below
ChunkLayerTypes ==
    NoHandlerTypes \cup {RTMP_TYPE_SET_CHUNK_SIZE, RTMP_TYPE_ACKNOWLEDGEMENT,
                         RTMP_TYPE_WINDOW_ACKNOWLEDGEMENT_SIZE}

\* handle_chunk_size_message: only a value above MAX_CHUNK_SIZE raises
ChunkSizeRefused(v) == MAX_CHUNK_SIZE < v

AckMsg(n) == Msg("Acknowledgement", "", "", n, 0, "", "")

\* One call of get_chunk_data by session s that reads exactly the bytes w: line
\* 238 stamps the packet of the csid with the time, line
\* 239 drops the payload of the packets in idle (csids silent for 120 s),
\* the header is read into the packet of the csid, the payload bytes are
\* appended, a complete message is handed to handle_rtmp_packet, and the
\* Acknowledgement test of lines 336-338 is made.  The reset of inAckSize
\* at 0xF0000000 is beyond every run of the model.
Chunk(s, w, idle) ==
    LET P0 == IncomingPackets[s]
        P == Purged(PacketSet(P0, Cid(w), PacketOf(P0, w)), idle)
        cs == chunk_size[s]
        cid == Cid(w)
        hd == ReadHeader(P, w)
        pk == ReadPacket(hd, w, cs)
        n == PayloadCount(hd, Fmt(w), cs)
        complete == Len(pk.payload) >= pk.payload_length
        done == [pk EXCEPT !.payload = <<>>]
        type == pk.msg_type_id
        value == FromBytesBig(pk.payload)
        acked == inAckSize[s] + Len(w)
        ackDue == /\ window_acknowledgement_size'[s] > 0
                  /\ acked - inLastAck[s] >= window_acknowledgement_size'[s]
    IN
    /\ pc[s] = "loop"
    /\ Readable(P, cs, w)
    /\ Used(hd, w, cs) = Len(w)
    /\ idle \subseteq DOMAIN P0 \cup {cid}
    /\ rx' = [rx EXCEPT ![s] =
                 [basic |-> SubSeq(w, 1, BasicLen(w)), fmt |-> Fmt(w),
                  cid |-> cid,
                  sid |-> IF Fmt(w) = 0
                          THEN SubSeq(w, BasicLen(w) + 8, BasicLen(w) + 11)
                          ELSE <<>>,
                  ext |-> ~BadType(pk) /\ ReadsExtended(pk), n |-> n]]
    /\ reads' = [reads EXCEPT ![s] = @ + 1]
    /\ last_received_time' =
           [last_received_time EXCEPT ![s] = PacketSet(@, cid, clock)]
    /\ IF BadType(pk)
       THEN /\ IncomingPackets' = [IncomingPackets EXCEPT ![s] =
                                      PacketSet(P, cid, pk)]
            /\ Disconnect(s)
            /\ UNCHANGED <<chunk_size, inAckSize, inLastAck,
                           window_acknowledgement_size, received, out>>
       ELSE IF Want(hd, Fmt(w)) <= 0
       THEN /\ IncomingPackets' = [IncomingPackets EXCEPT ![s] =
                                      PacketSet(P, cid, pk)]
            /\ inAckSize' = [inAckSize EXCEPT ![s] = acked]
            /\ UNCHANGED <<pc, client_states, LiveUsers, chunk_size,
                           inLastAck, window_acknowledgement_size, received,
                           out>>
       ELSE IF ~complete
       THEN /\ IncomingPackets' = [IncomingPackets EXCEPT ![s] =
                                      PacketSet(P, cid, pk)]
            /\ inAckSize' = [inAckSize EXCEPT ![s] = acked]
            /\ UNCHANGED <<chunk_size, window_acknowledgement_size, received>>
            /\ IF ackDue
               THEN /\ inLastAck' = [inLastAck EXCEPT ![s] = acked]
                    /\ Send(s, AckMsg(acked))
                    /\ pc' = [pc EXCEPT ![s] = "ack"]
                    /\ UNCHANGED <<client_states, LiveUsers>>
               ELSE UNCHANGED <<pc, client_states, LiveUsers, inLastAck, out>>
       ELSE /\ type \in ChunkLayerTypes
            /\ IncomingPackets' = [IncomingPackets EXCEPT ![s] =
                                      PacketSet(P, cid, done)]
            /\ inAckSize' = [inAckSize EXCEPT ![s] = acked]
            /\ received' = [received EXCEPT ![s] = Append(@, RtmpPacket(pk))]
            /\ IF type = RTMP_TYPE_SET_CHUNK_SIZE /\ ChunkSizeRefused(value)
               THEN /\ Disconnect(s)
                    /\ UNCHANGED <<chunk_size, window_acknowledgement_size,
                                   inLastAck, out>>
               ELSE /\ chunk_size' =
                           [chunk_size EXCEPT ![s] =
                               IF type = RTMP_TYPE_SET_CHUNK_SIZE
                               THEN value ELSE @]
                    /\ window_acknowledgement_size' =
                           [window_acknowledgement_size EXCEPT ![s] =
                               IF type = RTMP_TYPE_WINDOW_ACKNOWLEDGEMENT_SIZE
                               THEN value ELSE @]
                    /\ IF ackDue
                       THEN /\ inLastAck' = [inLastAck EXCEPT ![s] = acked]
                            /\ Send(s, AckMsg(acked))
                            /\ pc' = [pc EXCEPT ![s] = "ack"]
                            /\ UNCHANGED <<client_states, LiveUsers>>
                       ELSE UNCHANGED <<pc, client_states, LiveUsers,
                                        inLastAck, out>>
    /\ UNCHANGED <<sessVars, mediaVars, last, played, ops, writeVars,
                   shakeVars, clock, bitop, avc_info>>

\* ------------------------------------------- Header.toBytes, writeMessage
\* struct.pack('>I', v) and struct.pack('<I', v)
Bytes4Big(v) ==
    <<v \div 16777216, (v \div 65536) % 256, (v \div 256) % 256, v % 256>>

Bytes4Little(v) ==
    <<v % 256, (v \div 256) % 256, (v \div 65536) % 256, v \div 16777216>>

\* three bytes, big-endian: struct.pack('>I', v)[1:]
Bytes3(v) == <<v \div 65536, (v \div 256) % 256, v % 256>>

\* Header.__init__: size and type are None (-1) until they are set
Header(channel) ==
    [channel |-> channel, time |-> 0, size |-> -1, type |-> -1,
     streamId |-> 0, delta |-> 0]

\* Header.hdrdata
HdrData(channel) ==
    IF channel < 64 THEN <<channel>>
    ELSE IF channel < 320 THEN <<0, channel - 64>>
    ELSE <<1, (channel - 64) \div 256, (channel - 64) % 256>>

\* the extended timestamp written after every header, fmt 3 too
WritesExtended_always(control, time) == time >= EXT_TIMESTAMP

\* the test of line 105, nested in the test of line 92
WritesExtended(control, time) ==
    control # SEPARATOR /\ time >= EXT_TIMESTAMP

\* Header.toBytes(control)
toBytes(hdr, control) ==
    <<HdrData(hdr.channel)[1] + control>> \o Tail(HdrData(hdr.channel))
    \o (IF control # SEPARATOR
        THEN Bytes3(Min(hdr.time, EXT_TIMESTAMP))
             \o (IF control # TIME
                 THEN Bytes3(hdr.size) \o <<hdr.type>>
                      \o (IF control # MESSAGE
                          THEN Bytes4Little(hdr.streamId) ELSE <<>>)
                 ELSE <<>>)
        ELSE <<>>)
    \o (IF WritesExtended(control, hdr.time)
        THEN Bytes4Big(hdr.time) ELSE <<>>)

\* the loop of lines 796-802: a header and up to cs payload bytes per chunk
RECURSIVE WriteChunks(_, _, _, _)
WriteChunks(hdr, control, data, cs) ==
    IF data = <<>> THEN <<>>
    ELSE toBytes(hdr, control)
         \o SubSeq(data, 1, Min(cs, Len(data)))
         \o WriteChunks(hdr, SEPARATOR,
                        SubSeq(data, Min(cs, Len(data)) + 1, Len(data)), cs)

\* what the loop wrote, chunk by chunk: the fmt and whether an extended
\* timestamp is in the chunk
RECURSIVE ChunksWritten(_, _, _, _)
ChunksWritten(hdr, control, n, cs) ==
    IF n <= 0 THEN <<>>
    ELSE <<[fmt |-> control \div 64,
            ext |-> WritesExtended(control, hdr.time)]>>
         \o ChunksWritten(hdr, SEPARATOR, n - cs, cs)

\* the header of the stream id for every message, whatever its type
WriteHeaderOf_kept(H, next, m) ==
    IF m.stream_id \in DOMAIN H THEN H[m.stream_id]
    ELSE Header(IF next <= PROTOCOL_CHANNEL_ID
                THEN PROTOCOL_CHANNEL_ID + 1 ELSE next)

\* the header writeMessage works on (lines 765-774): the one kept for the
\* stream id, or a new one on channel 2 for a protocol control message
WriteHeaderOf(H, next, m) ==
    IF m.type < AUDIO THEN Header(PROTOCOL_CHANNEL_ID)
    ELSE IF m.stream_id \in DOMAIN H THEN H[m.stream_id]
    ELSE Header(IF next <= PROTOCOL_CHANNEL_ID
                THEN PROTOCOL_CHANNEL_ID + 1 ELSE next)

\* the control of lines 777-785
ControlOf(header, m) ==
    IF header.streamId # m.stream_id \/ header.time = 0
       \/ m.timestamp <= header.time
    THEN FULL
    ELSE IF header.size # m.size \/ header.type # m.type THEN MESSAGE
    ELSE TIME

\* the header after lines 777-785 updated it
Updated(header, m) ==
    IF ControlOf(header, m) = FULL
    THEN [header EXCEPT !.streamId = m.stream_id, !.type = m.type,
                        !.size = m.size, !.time = m.timestamp,
                        !.delta = m.timestamp]
    ELSE IF ControlOf(header, m) = MESSAGE
    THEN [header EXCEPT !.type = m.type, !.size = m.size,
                        !.time = m.timestamp,
                        !.delta = m.timestamp - header.time]
    ELSE [header EXCEPT !.time = m.timestamp,
                        !.delta = m.timestamp - header.time]

\* hdr of lines 787-794: the delta in place of the time for fmt 1 and 2
WireHeader(header, m) ==
    [Updated(header, m) EXCEPT
        !.time = IF ControlOf(header, m) \in {MESSAGE, TIME}
                 THEN Updated(header, m).delta ELSE Updated(header, m).time]

\* the bytes writeMessage hands to send()
MessageBytes(H, next, m, data) ==
    WriteChunks(WireHeader(WriteHeaderOf(H, next, m), m),
                ControlOf(WriteHeaderOf(H, next, m), m), data, OUT_CHUNK_SIZE)

\* writeMessage(s, m) with the payload data: the header of the stream id is
\* looked up or allocated, updated in place unless the message is a
\* protocol control message, and the chunks are written; the bytes reach
\* the reader of session r.  An empty payload writes nothing.
WriteMessage(s, m, data, r) ==
    LET H == lastWriteHeaders[s]
        next == nextChannelId[s]
        known == m.stream_id \in DOMAIN H
        first == IF next <= PROTOCOL_CHANNEL_ID
                 THEN PROTOCOL_CHANNEL_ID + 1 ELSE next
        header == WriteHeaderOf(H, next, m)
        kept == IF m.type < AUDIO
                THEN (IF known THEN H[m.stream_id] ELSE Header(first))
                ELSE Updated(header, m)
    IN
    /\ pc[s] = "loop"
    /\ m.size = Len(data)
    /\ lastWriteHeaders' = [lastWriteHeaders EXCEPT ![s] =
                               PacketSet(H, m.stream_id, kept)]
    /\ nextChannelId' = [nextChannelId EXCEPT ![s] =
                             IF known THEN next ELSE first + 1]
    /\ wire' = [wire EXCEPT ![r] = @ \o MessageBytes(H, next, m, data)]
    /\ sent' = [sent EXCEPT ![s] = Append(@, m)]
    /\ wrote' = [wrote EXCEPT ![s] =
                     @ \o ChunksWritten(WireHeader(header, m),
                                        ControlOf(header, m), m.size,
                                        OUT_CHUNK_SIZE)]
    /\ pc' = [pc EXCEPT ![s] = "drain"]
    /\ UNCHANGED <<client_states, LiveUsers, sessVars, mediaVars, out, last,
                   played, ops, chunk_size, IncomingPackets, inAckSize,
                   inLastAck, window_acknowledgement_size, received, rx,
                   reads, shakeVars, timeVars,
                   bitop, avc_info>>

\* ------------------------------------------- perform_handshake (bytes)
readVars == <<chunk_size, IncomingPackets, inAckSize, inLastAck,
              window_acknowledgement_size, received, rx, reads>>

\* bytes written to the socket during the handshake
HandshakeBytes(t, data) == [t |-> t, data |-> data]

\* C1 of a client that signs nothing, filled from the byte b
PlainC1(b) == [i \in 1..RTMP_SIG_SIZE |-> (i * b) % 256]

\* The HMAC-SHA256 of hashlib is not computed here: two byte strings stand
\* for a C1 whose digest verifies at the client offset (format 1) and at
\* the server offset (format 2).
SignedC1(format) == [i \in 1..RTMP_SIG_SIZE |-> 255 - format]

\* handshake.detectClientMessageFormat
detectClientMessageFormat(c1) ==
    IF c1 = SignedC1(2) THEN 2
    ELSE IF c1 = SignedC1(1) THEN 1
    ELSE MESSAGE_FORMAT_0

\* generateS1, generateS2: random bytes and a digest over them
RandomFills == {17, 34}
Generated(r) == [i \in 1..RTMP_SIG_SIZE |-> r]

\* no C2 is read
C2Length_none(s1_data) == 0

\* readexactly(len(s1_data)) of lines 387 and 394
C2Length(s1_data) == Len(s1_data)

\* line 373: C0 is read; any version but 3 and 6 closes the writer and
\* waits for it to be closed
ReadC0(s) ==
    /\ pc[s] = "handshake"
    /\ Len(wire[s]) >= 1
    /\ wire' = [wire EXCEPT ![s] = Tail(@)]
    /\ IF wire[s][1] \in {3, 6}
       THEN /\ pc' = [pc EXCEPT ![s] = "c1"]
            /\ UNCHANGED writer
       ELSE /\ pc' = [pc EXCEPT ![s] = "bad_c0"]
            /\ writer' = [writer EXCEPT ![s] = "closed"]
    /\ UNCHANGED <<client_states, LiveUsers, sessVars, mediaVars, out, last,
                   played, ops, readVars, writeVars, c1_data,
                   timeVars, bitop, avc_info>>

\* line 377 reads self.client_ip, which RTMPServer does not have: the
\* AttributeError is no TimeoutError, so it ends handle_client without a
\* call of disconnect
BadVersionRaise(s) ==
    /\ pc[s] = "bad_c0"
    /\ pc' = [pc EXCEPT ![s] = "dead"]
    /\ UNCHANGED <<client_states, LiveUsers, sessVars, mediaVars, out, last,
                   played, ops, chunkVars>>

\* lines 379-393: C1 is read and its format detected; for format 0 S0 is
\* written and drained, otherwise S0, S1 and S2 are written at once
ReadC1(s) ==
    /\ pc[s] = "c1"
    /\ Len(wire[s]) >= RTMP_SIG_SIZE
    /\ c1_data' = [c1_data EXCEPT ![s] = SubSeq(wire[s], 1, RTMP_SIG_SIZE)]
    /\ wire' = [wire EXCEPT ![s] = SubSeq(@, RTMP_SIG_SIZE + 1, Len(@))]
    /\ IF detectClientMessageFormat(c1_data'[s]) = MESSAGE_FORMAT_0
       THEN /\ Send(s, HandshakeBytes("S0", <<3>>))
            /\ pc' = [pc EXCEPT ![s] = "s0"]
       ELSE /\ \E r1 \in RandomFills, r2 \in RandomFills :
                   out' = [out EXCEPT ![s] =
                              @ \o <<HandshakeBytes("S0", <<3>>),
                                     HandshakeBytes("S1", Generated(r1)),
                                     HandshakeBytes("S2", Generated(r2))>>]
            /\ pc' = [pc EXCEPT ![s] = "c2_digest"]
    /\ UNCHANGED <<client_states, LiveUsers, sessVars, mediaVars, last,
                   played, ops, readVars, writeVars, writer,
                   timeVars, bitop, avc_info>>

\* line 386: S1 = C1 is written and drained
SendS1(s) ==
    /\ pc[s] = "s0"
    /\ Send(s, HandshakeBytes("S1", c1_data[s]))
    /\ pc' = [pc EXCEPT ![s] = "s1"]
    /\ UNCHANGED <<client_states, LiveUsers, sessVars, mediaVars, last,
                   played, ops, chunkVars>>

\* lines 387-388: C2 is read and dropped, S2 = C1 is written and drained
ReadC2(s) ==
    /\ pc[s] = "s1"
    /\ Len(wire[s]) >= C2Length(c1_data[s])
    /\ wire' = [wire EXCEPT ![s] =
                   SubSeq(@, C2Length(c1_data[s]) + 1, Len(@))]
    /\ Send(s, HandshakeBytes("S2", c1_data[s]))
    /\ pc' = [pc EXCEPT ![s] = "s2"]
    /\ UNCHANGED <<client_states, LiveUsers, sessVars, mediaVars, last,
                   played, ops, readVars, writeVars, shakeVars, timeVars,
                   bitop, avc_info>>

\* the drain of S2 returns: perform_handshake is done
SentS2(s) ==
    /\ pc[s] = "s2"
    /\ pc' = [pc EXCEPT ![s] = "loop"]
    /\ UNCHANGED <<client_states, LiveUsers, sessVars, mediaVars, out, last,
                   played, ops, chunkVars>>

\* line 394: C2 of a signed handshake is read and dropped
ReadC2Digest(s) ==
    /\ pc[s] = "c2_digest"
    /\ Len(wire[s]) >= C2Length(Generated(0))
    /\ wire' = [wire EXCEPT ![s] =
                   SubSeq(@, C2Length(Generated(0)) + 1, Len(@))]
    /\ pc' = [pc EXCEPT ![s] = "loop"]
    /\ UNCHANGED <<client_states, LiveUsers, sessVars, mediaVars, out, last,
                   played, ops, readVars, writeVars, shakeVars, timeVars,
                   bitop, avc_info>>

\* a read or a drain of the handshake raises (the peer went away): no
\* TimeoutError, so handle_client ends without a call of disconnect
HandshakeError(s) ==
    /\ pc[s] \in HandshakePcs \ {"bad_c0"}
    /\ pc' = [pc EXCEPT ![s] = "dead"]
    /\ UNCHANGED <<client_states, LiveUsers, sessVars, mediaVars, out, last,
                   played, ops, chunkVars>>

\* ------------------------------------------------------------- behaviours
Internal(s) ==
    /\ UNCHANGED chunkVars
    /\ \/ Accept(s)
       \/ HandshakeDone(s)
       \/ HandshakeTimeout(s)
       \/ Eof(s)
       \/ ConnectSetChunkSize(s)
       \/ ConnectSetPeerBandwidth(s)
       \/ ConnectRespond(s)
       \/ SendError(s)
       \/ Resume(s)
       \/ Raise(s)

Command(s) ==
    /\ UNCHANGED chunkVars
    /\ \/ \E a \in AppArgs : Connect(s, a)
       \/ CreateStream(s)
       \/ \E key \in Keys, m \in ModeArgs, sid \in StreamIds : Publish(s, key, m, sid)
       \/ \E sid \in StreamIds : Play(s, sid)
       \/ \E kind \in AudioKinds : Audio(s, kind)
       \/ \E kind \in VideoKinds : Video(s, kind)
       \/ \E kind \in MetaKinds : MetaData(s, kind)

Next ==
    \E s \in Clients :
        \/ Internal(s)
        \/ OpsTotal < MaxOps /\ Command(s)

Spec == Init /\ [][Next]_vars

\* Clients that only connect, publish and play: the commands that read or
\* write the registry.
PubCommand(s) ==
    /\ UNCHANGED chunkVars
    /\ \/ \E a \in AppArgs : Connect(s, a)
       \/ \E key \in Keys, m \in ModeArgs, sid \in PubStreamIds :
              Publish(s, key, m, sid)
       \/ \E sid \in PubStreamIds : Play(s, sid)

PubNext ==
    \E s \in Clients :
        \/ Internal(s)
        \/ OpsTotal < MaxPubOps /\ PubCommand(s)

PubSpec == Init /\ [][PubNext]_vars

\* disconnect is run once more for a session it was run for: the record
\* is still in client_states (line 203 was not reached), so line 190
\* finds it; the registry loop runs again and line 201 raises again
DisconnectAgain(s) ==
    /\ pc[s] = "closed"
    /\ s \in client_states
    /\ LiveUsers' = DelFirst(LiveUsers, s)
    /\ UNCHANGED <<pc, client_states, sessVars, mediaVars, out, last, played,
                   ops, chunkVars>>

CloseNext ==
    \E s \in Clients :
        \/ Internal(s)
        \/ OpsTotal < MaxPubOps /\ PubCommand(s)
        \/ DisconnectAgain(s)

CloseSpec == Init /\ [][CloseNext]_vars

\* Clients that send audio and video messages, sequence headers that are
\* whole, cut short or malformed among them.
SeqAudioKinds == {"aac_seq", "aac_seq_cut", "aac_seq_short", "audio_frame"}
SeqVideoKinds ==
    {"avc_seq", "avc_seq_no_sps", "avc_seq_cut", "avc_short", "video_frame"}

MediaCommand(s) ==
    /\ UNCHANGED chunkVars
    /\ \/ \E kind \in SeqAudioKinds : Audio(s, kind)
       \/ \E kind \in SeqVideoKinds : Video(s, kind)

MediaNext ==
    \E s \in Clients :
        \/ Internal(s)
        \/ OpsTotal < MaxMediaOps /\ MediaCommand(s)

MediaSpec == Init /\ [][MediaNext]_vars

\* One publishing client and one playing client on the same app.
Publisher == 1
Player == 2

FlowCommand(s) ==
    /\ UNCHANGED chunkVars
    /\ \/ Connect(s, "a")
       \/ s = Publisher /\ Publish(s, "k", NoMode, 1)
       \/ s = Publisher /\ MetaData(s, "onMetaData")
       \/ s = Publisher /\ \E kind \in AudioKinds : Audio(s, kind)
       \/ s = Publisher /\ \E kind \in VideoKinds : Video(s, kind)
       \/ s = Player /\ Play(s, 1)

FlowNext ==
    \E s \in Clients :
        \/ Internal(s)
        \/ OpsTotal < MaxFlowOps /\ FlowCommand(s)

FlowSpec == Init /\ [][FlowNext]_vars

\* ------------------------------------------------ chunks a client sends
\* the header bytes of one chunk as a client lays them out: the basic
\* header, then the message header of the fmt
ClientHeader(fmt, basic, ts, len, type, sid) ==
    <<fmt * 64 + basic[1]>> \o Tail(basic)
    \o (IF fmt <= 2 THEN Bytes3(ts) ELSE <<>>)
    \o (IF fmt <= 1 THEN Bytes3(len) \o <<type>> ELSE <<>>)
    \o (IF fmt = 0 THEN sid ELSE <<>>)

\* payloads of the messages the client of ChunkSpec sends: Set Chunk Size
\* values 3, 10485760 and 10485761
SampleData == {<<0, 0, 0, 3>>, <<0, 160, 0, 0>>, <<0, 160, 0, 1>>}

\* every run of consecutive bytes of a sample payload
PiecesOf(d) ==
    {SubSeq(d, x[1], x[2]) :
        x \in {y \in (1..Len(d)) \X (1..Len(d)) : y[1] <= y[2]}}

AllPieces == {<<>>} \cup UNION {PiecesOf(m) : m \in SampleData}

\* the runs of n bytes a read of n payload bytes can return
Pieces(n) == {d \in AllPieces : Len(d) = n}

\* the extended timestamps a client sends
ExtInputs == {<<0, 255, 255, 255>>, <<1, 0, 0, 0>>}

ChunkCsids == {<<3>>, <<4>>}
ChunkLens == {0, 4}
ChunkTypes == {RTMP_TYPE_SET_CHUNK_SIZE, RTMP_TYPE_ACKNOWLEDGEMENT, 23}

ChunkHeaders ==
    {ClientHeader(0, b, 5, l, t, <<0, 0, 0, 0>>) :
        b \in ChunkCsids, l \in ChunkLens, t \in ChunkTypes}
    \cup
    {ClientHeader(1, b, 5, l, RTMP_TYPE_ACKNOWLEDGEMENT, <<>>) :
        b \in ChunkCsids, l \in ChunkLens \ {0}}
    \cup
    {ClientHeader(f, b, 5, 0, 0, <<>>) : f \in {2, 3}, b \in ChunkCsids}

\* the session whose client sends chunks in ChunkSpec and HdrSpec
Peer == 1

\* the client sent a chunk with the header bytes h: each read of the call
\* returns as many bytes as it asks for, the extended timestamp and the
\* payload among them
ClientSends(s, h) ==
    LET P == IncomingPackets[s]
        pk == ReadHeader(P, h)
    IN \E e \in (IF ~BadType(pk) /\ ReadsExtended(pk)
                 THEN ExtInputs ELSE {<<>>}) :
       \E d \in Pieces(PayloadCount(pk, Fmt(h), chunk_size[s])) :
       \E idle \in SUBSET {c \in DOMAIN P \ {Cid(h)} : P[c].payload # <<>>} :
           /\ Chunk(s, h \o e \o d, idle)
           /\ UNCHANGED wire

ChunkNext ==
    \/ Internal(Peer)
    \/ /\ reads[Peer] < MaxChunks
       /\ \E h \in ChunkHeaders : ClientSends(Peer, h)

ChunkSpec == Init /\ [][ChunkNext]_vars

\* A client that sends one-byte messages under every form of the basic
\* header, with several message stream ids and timestamps.
HdrBasics ==
    {<<5>>, <<63>>, <<0, 0>>, <<0, 255>>, <<1, 0, 0>>, <<1, 255, 0>>,
     <<1, 0, 1>>, <<1, 255, 255>>}
HdrStreamIds == {<<0, 0, 0, 0>>, <<1, 0, 0, 0>>, <<0, 0, 0, 1>>}
HdrTimestamps == {5, EXT_TIMESTAMP}

HdrHeaders ==
    {ClientHeader(0, b, t, 1, RTMP_TYPE_ACKNOWLEDGEMENT, i) :
        b \in HdrBasics, t \in HdrTimestamps, i \in HdrStreamIds}
    \cup
    {ClientHeader(3, b, 0, 0, 0, <<>>) : b \in HdrBasics}

HdrNext ==
    \/ Internal(Peer)
    \/ /\ reads[Peer] < MaxHdrChunks
       /\ \E h \in HdrHeaders : ClientSends(Peer, h)

HdrSpec == Init /\ [][HdrNext]_vars

\* ------------------------------------------- the writer read by the reader
\* A client that hands the bytes the server writes on the session Writer to
\* the server again, on the session Reader: the Set Chunk Size of the
\* connect response first, then the messages of writeMessage.
Writer == 1
Reader == 2

\* set_chunk_size: the buffer of line 730 with the size packed at byte 12
SetChunkSizeBytes(size) ==
    <<PROTOCOL_CHANNEL_ID, 0, 0, 0, 0, 0, 4, RTMP_TYPE_SET_CHUNK_SIZE,
      0, 0, 0, 0>> \o Bytes4Big(size)

\* the second control write of connect, its bytes handed to the Reader
RelaySetChunkSize ==
    /\ ConnectSetChunkSize(Writer)
    /\ wire' = [wire EXCEPT ![Reader] = @ \o SetChunkSizeBytes(OUT_CHUNK_SIZE)]
    /\ UNCHANGED <<chunk_size, IncomingPackets, inAckSize, inLastAck,
                   window_acknowledgement_size, received, rx, reads,
                   writeVars, shakeVars, timeVars,
                   bitop, avc_info>>

\* the next call of get_chunk_data on the bytes waiting in the reader
ReadWire(s) ==
    LET P == IncomingPackets[s]
        w == wire[s]
        cs == chunk_size[s]
    IN /\ Readable(P, cs, w)
       /\ Chunk(s, SubSeq(w, 1, Used(ReadHeader(P, w), w, cs)), {})
       /\ wire' = [wire EXCEPT ![s] =
                      SubSeq(w, Used(ReadHeader(P, w), w, cs) + 1, Len(w))]

\* payloads of one byte and of one byte more than a chunk
LoopSizes == {1, OUT_CHUNK_SIZE + 1}
LoopPayload(n) == [i \in 1..n |-> (i % 100) + 1]
LoopTimes == {5, 9, EXT_TIMESTAMP}

\* messages of a type without a handler on stream 1, and an Acknowledgement
LoopMessages ==
    {[stream_id |-> 1, type |-> RTMP_TYPE_METADATA, timestamp |-> t,
      size |-> n] : t \in LoopTimes, n \in LoopSizes}
    \cup
    {[stream_id |-> 0, type |-> RTMP_TYPE_ACKNOWLEDGEMENT, timestamp |-> 5,
      size |-> 4]}

LoopNext ==
    \/ \E s \in Clients : Internal(s)
    \/ /\ ops[Writer] = 0
       /\ Connect(Writer, "a")
       /\ UNCHANGED chunkVars
    \/ RelaySetChunkSize
    \/ /\ chunk_size[Reader] = OUT_CHUNK_SIZE
       /\ Len(sent[Writer]) < MaxLoopMsgs
       /\ \E m \in LoopMessages :
              WriteMessage(Writer, m, LoopPayload(m.size), Reader)
    \/ ReadWire(Reader)

LoopSpec == Init /\ [][LoopNext]_vars

\* ------------------------------------------ the server writes messages
\* messages on two stream ids: Acknowledgement (a type below 8), and
\* types 20 and 22; payloads of 1 byte, of one chunk and one byte, and of
\* two chunks and one byte
WriteMessages ==
    [stream_id : {1, 2},
     type : {RTMP_TYPE_ACKNOWLEDGEMENT, 20, RTMP_TYPE_METADATA},
     timestamp : LoopTimes,
     size : {1, OUT_CHUNK_SIZE + 1, 2 * OUT_CHUNK_SIZE + 1}]

WriteNext ==
    \/ Internal(Writer)
    \/ /\ Len(sent[Writer]) < MaxWriteMsgs
       /\ \E m \in WriteMessages :
              WriteMessage(Writer, m, LoopPayload(m.size), Reader)

WriteSpec == Init /\ [][WriteNext]_vars

\* ------------------------------------- a client sends a long message
\* the 5000 payload bytes of the message
BigPayload == [i \in 1..5000 |-> i % 251]

\* the chunk sizes the client announces (128 needs no announcement)
BigChunkSizes == {CHUNK_SIZE, 500, 1000, OUT_CHUNK_SIZE, 5000}

\* a message of a type without a handler on csid 5, cut by the client into
\* chunks of c payload bytes: a fmt 0 header on the first chunk, fmt 3 on
\* the others
RECURSIVE ClientChunks(_, _, _)
ClientChunks(data, c, total) ==
    LET h == IF Len(data) = total
             THEN ClientHeader(0, <<5>>, 0, total, RTMP_TYPE_METADATA,
                               <<1, 0, 0, 0>>)
             ELSE ClientHeader(3, <<5>>, 0, 0, 0, <<>>)
    IN IF Len(data) <= c
       THEN h \o data
       ELSE h \o SubSeq(data, 1, c)
              \o ClientChunks(SubSeq(data, c + 1, Len(data)), c, total)

\* the client writes a Set Chunk Size message for c, unless c is the size
\* in use, and then the message
ClientSendsBig(s, c) ==
    /\ pc[s] = "loop"
    /\ reads[s] = 0
    /\ wire[s] = <<>>
    /\ wire' = [wire EXCEPT ![s] =
                   (IF c = chunk_size[s] THEN <<>> ELSE SetChunkSizeBytes(c))
                   \o ClientChunks(BigPayload, c, Len(BigPayload))]
    /\ UNCHANGED <<pc, client_states, LiveUsers, sessVars, mediaVars, out,
                   last, played, ops, readVars, writeVars, shakeVars, timeVars,
                   bitop, avc_info>>

BigNext ==
    \/ Internal(Peer)
    \/ \E c \in BigChunkSizes : ClientSendsBig(Peer, c)
    \/ ReadWire(Peer)

BigSpec == Init /\ [][BigNext]_vars

\* --------------------------- two clients, commands and chunks of both
\* chunks of a Set Chunk Size message (values 3, 10485760, 10485761) and
\* of a message of type 23
IsoHeaders ==
    {ClientHeader(0, <<3>>, 5, 4, RTMP_TYPE_SET_CHUNK_SIZE, <<0, 0, 0, 0>>),
     ClientHeader(0, <<3>>, 5, 0, 23, <<0, 0, 0, 0>>)}

IsoNext ==
    \E s \in Clients :
        \/ Internal(s)
        \/ OpsTotal < MaxIsoOps /\ PubCommand(s)
        \/ /\ reads[1] + reads[2] < MaxIsoChunks
           /\ \E h \in IsoHeaders : ClientSends(s, h)

IsoSpec == Init /\ [][IsoNext]_vars

\* ------------------------------------------ a client aborts a message
\* n bytes of value k
Fill(n, k) == [i \in 1..n |-> k]

\* what a client writes that leaves two messages unfinished and aborts
\* one: an announcement of the chunk size z (unless it is the default),
\* the first chunk of a message of z + 2 bytes on csid 4 (bytes 7) and of
\* one on csid 5 (bytes 8), an Abort message naming csid a, and then
\* either nothing, or a new message on csid a with a fmt 0 header (bytes
\* 9), or the first two bytes of a new message announced with fmt 3
AbortBytes(z, a, then) ==
    LET first(c, k) ==
            ClientHeader(0, <<c>>, 0, z + 2, RTMP_TYPE_METADATA,
                         <<1, 0, 0, 0>>) \o Fill(z, k)
        next(k, n) == ClientHeader(3, <<a>>, 0, 0, 0, <<>>) \o Fill(n, k)
    IN (IF z = CHUNK_SIZE THEN <<>> ELSE SetChunkSizeBytes(z))
       \o first(4, 7) \o first(5, 8)
       \o ClientHeader(0, <<PROTOCOL_CHANNEL_ID>>, 0, 4, 2, <<0, 0, 0, 0>>)
       \o <<0, 0, 0, a>>
       \o (IF then = "fmt0" THEN first(a, 9) \o next(9, 2)
           ELSE IF then = "fmt3" THEN next(9, 2)
           ELSE <<>>)

AbortScripts ==
    {AbortBytes(z, a, then) :
        z \in {CHUNK_SIZE, 100, 64}, a \in {4, 5},
        then \in {"", "fmt0", "fmt3"}}

\* the client writes bytes and the server has them in its reader
ClientWrites(s, bytes) ==
    /\ pc[s] = "loop"
    /\ reads[s] = 0
    /\ wire[s] = <<>>
    /\ wire' = [wire EXCEPT ![s] = bytes]
    /\ UNCHANGED <<pc, client_states, LiveUsers, sessVars, mediaVars, out,
                   last, played, ops, readVars, writeVars, shakeVars, timeVars,
                   bitop, avc_info>>

AbortNext ==
    \/ Internal(Peer)
    \/ \E bytes \in AbortScripts : ClientWrites(Peer, bytes)
    \/ ReadWire(Peer)

AbortSpec == Init /\ [][AbortNext]_vars

\* ---------------------------------------- a client sets the ack window
\* chunks of Window Acknowledgement Size and Acknowledgement messages with
\* a declared length of 0 or 4, with fmt 0 and fmt 1 headers, and chunks
\* with fmt 2 and fmt 3 headers; the payloads are those of SampleData, the
\* windows 3, 10485760 and 10485761
AckHeaders ==
    {ClientHeader(0, <<3>>, 5, l, t, <<0, 0, 0, 0>>) :
        l \in ChunkLens,
        t \in {RTMP_TYPE_WINDOW_ACKNOWLEDGEMENT_SIZE,
               RTMP_TYPE_ACKNOWLEDGEMENT}}
    \cup {ClientHeader(1, <<3>>, 5, l, RTMP_TYPE_ACKNOWLEDGEMENT, <<>>) :
             l \in ChunkLens}
    \cup {ClientHeader(f, <<3>>, 5, 0, 0, <<>>) : f \in {2, 3}}

AckNext ==
    \/ Internal(Peer)
    \/ /\ reads[Peer] < MaxAckChunks
       /\ \E h \in AckHeaders : ClientSends(Peer, h)

AckSpec == Init /\ [][AckNext]_vars

\* ------------------------------------------------- chunks sent over time
\* the clock advances by half the packet timeout
Tick ==
    /\ clock < MaxTicks * (PACKET_TIMEOUT \div 2)
    /\ clock' = clock + (PACKET_TIMEOUT \div 2)
    /\ UNCHANGED <<pc, client_states, LiveUsers, sessVars, mediaVars, out,
                   last, played, ops, readVars, wire, writeVars, shakeVars,
                   last_received_time, bitop, avc_info>>

\* the message every client of TimeSpec sends: Set Chunk Size 3 when its
\* type is 1
TimePayload == <<0, 0, 0, 3>>

TimeHeaders ==
    {ClientHeader(0, b, 5, Len(TimePayload), t, <<0, 0, 0, 0>>) :
        b \in ChunkCsids,
        t \in {RTMP_TYPE_SET_CHUNK_SIZE, RTMP_TYPE_ACKNOWLEDGEMENT}}
    \cup {ClientHeader(3, b, 5, 0, 0, <<>>) : b \in ChunkCsids}

\* the client sent a chunk with the header bytes h at the time clock: line
\* 238 stamps the packet of the csid, then the pass of line 239 drops the
\* payload of every packet stamped PACKET_TIMEOUT seconds ago or more
ClientSendsAt(s, h) ==
    LET T == PacketSet(last_received_time[s], Cid(h), clock)
        idle == Stale(T, clock)
        P == Purged(PacketSet(IncomingPackets[s], Cid(h),
                              PacketOf(IncomingPackets[s], h)), idle)
        pk == ReadHeader(P, h)
        n == PayloadCount(pk, Fmt(h), chunk_size[s])
        had == Len(pk.payload)
    IN /\ had + n <= Len(TimePayload)
       /\ Chunk(s, h \o SubSeq(TimePayload, had + 1, had + n), idle)
       /\ UNCHANGED wire

TimeNext ==
    \/ Internal(Peer)
    \/ Tick
    \/ /\ reads[Peer] < MaxTimeChunks
       /\ \E h \in TimeHeaders : ClientSendsAt(Peer, h)

TimeSpec == Init /\ [][TimeNext]_vars

\* ------------------------------------------------------ a Bitop at work
\* Bitop.read(n) on the object b, v being the value read so far: one pass
\* of the loop of lines 65-81 for each byte the n bits lie in
RECURSIVE Bitop_read(_, _, _)
Bitop_read(b, n, v) ==
    IF n = 0 THEN [b EXCEPT !.v = v]
    ELSE IF n < 0 \/ b.bufpos >= Len(b.buffer)
    THEN [b EXCEPT !.iserro = TRUE, !.v = 0]
    ELSE LET d == IF b.bufoff + n > 8 THEN 8 - b.bufoff ELSE n
             bits == (b.buffer[b.bufpos + 1] \div (2 ^ (8 - b.bufoff - d)))
                         % (2 ^ d)
             whole == b.bufoff + d = 8
         IN Bitop_read([b EXCEPT !.iserro = FALSE,
                                 !.bufoff = IF whole THEN 0 ELSE @ + d,
                                 !.bufpos = IF whole THEN @ + 1 ELSE @],
                       n - d, v * (2 ^ d) + bits)

\* Bitop.look(n): read(n), then the cursor is put back
Bitop_look(b, n) ==
    [Bitop_read(b, n, 0) EXCEPT !.bufpos = b.bufpos, !.bufoff = b.bufoff]

\* the buffers a Bitop is made on, and the bit counts it is asked for
BitBuffers == {<<>>, <<165>>, <<103, 66>>}
BitCounts == {-1, 0, 1, 3, 8, 9}

BitopAlone ==
    UNCHANGED <<pc, client_states, LiveUsers, sessVars, mediaVars, out, last,
                played, ops, readVars, wire, writeVars, shakeVars, timeVars,
                avc_info>>

\* Bitop(buffer)
NewBitop(buf) ==
    /\ bitop' = [NoBitop EXCEPT !.buffer = buf, !.call = "new"]
    /\ BitopAlone

CallRead(n) ==
    /\ bitop.call # ""
    /\ bitop' = [Bitop_read(bitop, n, 0) EXCEPT !.call = "read", !.n = n]
    /\ BitopAlone

CallLook(n) ==
    /\ bitop.call # ""
    /\ bitop' = [Bitop_look(bitop, n) EXCEPT !.call = "look", !.n = n]
    /\ BitopAlone

BitopNext ==
    \/ \E buf \in BitBuffers : NewBitop(buf)
    \/ \E n \in BitCounts : CallRead(n)
    \/ \E n \in BitCounts : CallLook(n)

BitopSpec == Init /\ [][BitopNext]_vars

\* ------------------------------------- AVC sequence headers an encoder sends
\* the n bits of v, high bit first
RECURSIVE Binary(_, _)
Binary(v, n) == IF n = 0 THEN <<>> ELSE Binary(v \div 2, n - 1) \o <<v % 2>>

\* the number of bits of v
RECURSIVE BitLength(_)
BitLength(v) == IF v = 0 THEN 0 ELSE 1 + BitLength(v \div 2)

\* the Exp-Golomb code ue(v) of H.264
ue(v) == Binary(0, BitLength(v + 1) - 1) \o Binary(v + 1, BitLength(v + 1))

RECURSIVE ByteOf(_)
ByteOf(bits) ==
    IF bits = <<>> THEN 0
    ELSE 2 * ByteOf(SubSeq(bits, 1, Len(bits) - 1)) + bits[Len(bits)]

\* the bits as bytes, zero bits filling the last one
PackBits(bits) ==
    [i \in 1..((Len(bits) + 7) \div 8) |->
        ByteOf([j \in 1..8 |-> IF 8 * (i - 1) + j <= Len(bits)
                               THEN bits[8 * (i - 1) + j] ELSE 0])]

\* the SPS fields after level_idc: seq_parameter_set_id 0,
\* log2_max_frame_num_minus4 0, pic_order_cnt_type (with
\* log2_max_pic_order_cnt_lsb_minus4 0 for type 0), one reference frame,
\* no gaps, the size in macroblocks, frame_mbs_only (with
\* mb_adaptive_frame_field 0 when it is 0), direct_8x8_inference, the
\* cropping, no VUI, and the stop bit
SpsBits(f) ==
    ue(0) \o ue(0) \o ue(f.poc) \o (IF f.poc = 0 THEN ue(0) ELSE <<>>)
    \o ue(1) \o <<0>> \o ue(f.w - 1) \o ue(f.h - 1)
    \o <<f.frame_mbs_only>> \o (IF f.frame_mbs_only = 0 THEN <<0>> ELSE <<>>)
    \o <<1>>
    \o (IF f.crop = <<>> THEN <<0>>
        ELSE <<1>> \o ue(f.crop[1]) \o ue(f.crop[2]) \o ue(f.crop[3])
                 \o ue(f.crop[4]))
    \o <<0, 1>>

\* the SPS NAL unit: NAL header 0x67, profile_idc, constraint flags,
\* level_idc, then the fields
SpsNal(f) == <<103, f.profile, 192, f.level>> \o PackBits(SpsBits(f))

\* the video message of an AVC sequence header: the 5-byte FLV prefix, the
\* AVCDecoderConfigurationRecord with one SPS, and one PPS
AvcSequenceHeader(f) ==
    <<23, 0, 0, 0, 0>>
    \o <<1, f.profile, 192, f.level, 255, 225, 0, Len(SpsNal(f))>>
    \o SpsNal(f) \o <<1, 0, 4, 104, 206, 60, 128>>

\* the streams of AvcSpec: sizes in macroblocks (or map units), the
\* cropping as <<left, right, top, bottom>>, <<>> for none
AvcStreams ==
    [profile : {66}, level : {30, 31}, poc : {0, 2}, w : {20, 80, 120},
     h : {34, 45, 68}, frame_mbs_only : {0, 1},
     crop : {<<>>, <<0, 0, 0, 4>>}]

\* the stream of the claim: 1920x1080, baseline, level 3.1
FullHD ==
    [profile |-> 66, level |-> 31, poc |-> 0, w |-> 120, h |-> 68,
     frame_mbs_only |-> 1, crop |-> <<0, 0, 0, 4>>]

\* handle_video_data hands the sequence header of the stream f to
\* read_h264_specific_config
ParseAvc(f) ==
    /\ avc_info' = [fields |-> f,
                    result |-> read_h264_specific_config(AvcSequenceHeader(f))]
    /\ UNCHANGED <<pc, client_states, LiveUsers, sessVars, mediaVars, out,
                   last, played, ops, readVars, wire, writeVars, shakeVars,
                   timeVars, bitop>>

AvcNext == \E f \in AvcStreams : ParseAvc(f)

AvcSpec == Init /\ [][AvcNext]_vars

\* ------------------------------------------- a client opens a connection
\* what a client sends first: C0, C1, C2 of 1536 bytes, and one chunk (an
\* Acknowledgement message of four bytes); every cut of it between two
\* parts is a client that stops there
C0Versions == {3, 6, 5}
C1Samples == {PlainC1(1), PlainC1(7), SignedC1(1), SignedC1(2)}
ClientC2 == [i \in 1..RTMP_SIG_SIZE |-> 9]
FirstPayload == <<0, 0, 0, 1>>
FirstChunk ==
    ClientHeader(0, <<3>>, 0, 4, RTMP_TYPE_ACKNOWLEDGEMENT, <<0, 0, 0, 0>>)
    \o FirstPayload

OpeningBytes ==
    UNION {{<<v>>, <<v>> \o c1, <<v>> \o c1 \o ClientC2,
            <<v>> \o c1 \o ClientC2 \o FirstChunk} :
               v \in C0Versions, c1 \in C1Samples}

ClientOpens(s, bytes) ==
    /\ pc[s] = "handshake"
    /\ wire[s] = <<>>
    /\ wire' = [wire EXCEPT ![s] = bytes]
    /\ UNCHANGED <<pc, client_states, LiveUsers, sessVars, mediaVars, out,
                   last, played, ops, readVars, writeVars, shakeVars, timeVars,
                   bitop, avc_info>>

ShakeNext ==
    \/ Accept(Peer) /\ UNCHANGED chunkVars
    \/ \E bytes \in OpeningBytes : ClientOpens(Peer, bytes)
    \/ ReadC0(Peer)
    \/ BadVersionRaise(Peer)
    \/ ReadC1(Peer)
    \/ SendS1(Peer)
    \/ ReadC2(Peer)
    \/ SentS2(Peer)
    \/ ReadC2Digest(Peer)
    \/ HandshakeError(Peer)
    \/ HandshakeTimeout(Peer) /\ UNCHANGED chunkVars
    \/ ReadWire(Peer)
    \/ Eof(Peer) /\ UNCHANGED chunkVars

ShakeSpec == Init /\ [][ShakeNext]_vars

\* ============================================================ properties
AllApps == Apps \cup {""}

LastOut(s) == out[s][Len(out[s])]

HasOut(s) == out[s] # <<>>

\* the step in which the dispatcher of session s handled a message cmd
DispatchStep(s, cmd) == ops'[s] = ops[s] + 1 /\ last'[s].cmd = cmd

SessionState(t) ==
    <<pc[t], app[t], stream_mode[t], streamPath[t], publishStreamId[t],
      publishStreamPath[t], streams[t], metaDataPayload[t],
      aacSequenceHeader[t], avcSequenceHeader[t], audioCodec[t],
      videoCodec[t], out[t], last[t], played[t], ops[t]>>

OthersUnchanged(s) == \A t \in Clients \ {s} : SessionState(t)' = SessionState(t)

OthersEntries(L, s) == SelectSeq(L, LAMBDA e : e.client_id # s)

Publishers(a) ==
    {LiveUsers[i].client_id : i \in {j \in DOMAIN LiveUsers : LiveUsers[j].app = a}}

LiveModeArg(m) == m \in {NoMode, "live"}

IsStatus(m, level, code) ==
    m.t = "onStatus" /\ m.level = level /\ m.code = code

\* session s is waiting to raise after the refusal named code was written
Refused(s, cmd, code) ==
    /\ pc[s] = "raise"
    /\ last[s].cmd = cmd
    /\ HasOut(s)
    /\ IsStatus(LastOut(s), "error", code)

\* C1: in live mode an app has at most one registered publisher at any
\* time; a registry entry is never replaced while it exists; a live publish
\* with a stream key made while the app has an entry leaves the registry as
\* it is and gets NetStream.Publish.BadName, and one made while the app has
\* no entry inserts the entry in the same step.
C1_AtomicCheckThenInsert ==
    /\ [](\A a \in AllApps : Cardinality(Publishers(a)) <= 1)
    /\ [][/\ \A a \in AllApps :
                InLiveUsers(a) /\ InLiveUsers(a)' =>
                    LiveUsersAt(a)' = LiveUsersAt(a)
          /\ \A s \in Clients :
                (/\ DispatchStep(s, "publish")
                 /\ last'[s].a1 # ""
                 /\ LiveModeArg(last'[s].a2)) =>
                    IF InLiveUsers(app[s])
                    THEN /\ LiveUsers' = LiveUsers
                         /\ IsStatus(LastOut(s)', "error",
                                     "NetStream.Publish.BadName")
                         /\ pc'[s] = "raise"
                    ELSE /\ InLiveUsers(app[s])'
                         /\ LiveUsersAt(app[s])'.client_id = s
                         /\ OthersEntries(LiveUsers', s) = OthersEntries(LiveUsers, s)
         ]_vars

\* two sessions published live to one app: one owns the entry, the other
\* was refused
W_C1 ==
    \E s, f \in Clients :
        /\ s # f
        /\ Refused(s, "publish", "NetStream.Publish.BadName")
        /\ app[s] \in Apps
        /\ Owner(app[s]) = f
        /\ pc[f] \in {"loop", "drain"}
        /\ LiveModeArg(last[f].a2) /\ last[f].cmd = "publish"

C3_PublishAnyMode ==
    /\ [][\A s \in Clients :
            (/\ DispatchStep(s, "publish")
             /\ last'[s].a1 # ""
             /\ app[s] \in Apps) =>
                IF InLiveUsers(app[s])
                THEN /\ IsStatus(LastOut(s)', "error",
                                 "NetStream.Publish.BadName")
                     /\ LiveUsers' = LiveUsers
                ELSE /\ Owner(app[s])' = s
                     /\ IsStatus(LastOut(s)', "status",
                                 "NetStream.Publish.Start")
         ]_vars
    /\ [](\A s \in Clients :
            (/\ pc[s] = "drain"
             /\ last[s].cmd = "publish"
             /\ app[s] \in Apps
             /\ IsStatus(LastOut(s), "status", "NetStream.Publish.Start")) =>
                Owner(app[s]) = s)

C5_NoEntryAfterDisconnect ==
    \A s \in Clients :
        pc[s] = "closed" => \A i \in DOMAIN LiveUsers : LiveUsers[i].client_id # s

LastN(s, n) == SubSeq(out[s], Len(out[s]) - n + 1, Len(out[s]))

Attached(s, p) ==
    /\ s # p
    /\ pc[s] \in {"loop", "drain"}
    /\ played[s].app # ""
    /\ Owner(played[s].app) = p

\* C7: a play accepted for an app whose publisher has cached metadata, an
\* AAC sequence header and an AVC sequence header writes to the player the
\* onMetaData message, then the AAC header, then the AVC header; and each
\* later video frame of that publisher is written to the player.
C7_ReplayOnPlay ==
    [][\A s \in Clients :
          /\ (/\ DispatchStep(s, "play")
              /\ app[s] \in Apps
              /\ InLiveUsers(app[s])
              /\ metaDataPayload[Owner(app[s])]
              /\ aacSequenceHeader[Owner(app[s])]
              /\ avcSequenceHeader[Owner(app[s])]) =>
                 out'[s] = out[s] \o <<MetaDataMsg(last'[s].n),
                                       MediaMsg("audio", "aac_seq"),
                                       MediaMsg("video", "avc_seq")>>
          /\ \A p \in Clients :
                (/\ Attached(s, p)
                 /\ metaDataPayload[p]
                 /\ aacSequenceHeader[p]
                 /\ avcSequenceHeader[p]
                 /\ DispatchStep(p, "video")
                 /\ last'[p].a1 = "video_frame") =>
                    out'[s] = Append(out[s], MediaMsg("video", "video_frame"))
      ]_vars

\* C8: every audio and video message of a publisher is written, in the
\* step that handles it, to every player whose play for the publisher's
\* app was accepted before the publisher's first media message.
C8_FanOutInOrder ==
    [][\A p, s \in Clients :
          (/\ Attached(s, p)
           /\ played[s].first
           /\ DispatchStep(p, "audio") \/ DispatchStep(p, "video")) =>
              out'[s] = Append(out[s], MediaMsg(last'[p].cmd, last'[p].a1))
      ]_vars

\* C9: the step that ends a registered publisher writes
\* NetStream.Play.UnpublishNotify to every player attached to it and
\* detaches the player.
C9_UnpublishNotify ==
    [][\A p, s \in Clients :
          (/\ Attached(s, p)
           /\ pc[p] # "closed"
           /\ pc'[p] = "closed") =>
              /\ Len(out'[s]) = Len(out[s]) + 1
              /\ IsStatus(LastOut(s)', "status",
                          "NetStream.Play.UnpublishNotify")
              /\ played'[s] = NotPlaying
      ]_vars

\* C10: when the _result of a connect has been written, the last four
\* messages written to the session are Window Acknowledgement Size, Set
\* Peer Bandwidth, Set Chunk Size and the _result, in this order.
C10_ConnectResponseOrder ==
    \A s \in Clients :
        (pc[s] = "drain" /\ last[s].cmd = "connect") =>
            /\ Len(out[s]) >= 4
            /\ LastN(s, 4) = <<WindowAckMsg, SetPeerBandwidthMsg,
                              SetChunkSizeMsg, ConnectResultMsg>>

RECURSIVE CreatedIds(_)
CreatedIds(o) ==
    IF o = <<>> THEN <<>>
    ELSE LET m == Head(o)
         IN (IF m.t = "_result" /\ m.code = "createStream"
             THEN <<m.arg>> ELSE <<>>) \o CreatedIds(Tail(o))

\* C12: a createStream adds one to the stream counter of its session and
\* writes _result with the new value; the counter of a session changes in
\* no other step; the ids written to a session are 1, 2, 3, ... in order.
C12_CreateStreamCounter ==
    /\ [][\A s \in Clients :
            /\ DispatchStep(s, "createStream") =>
                   /\ streams'[s] = streams[s] + 1
                   /\ out'[s] = Append(out[s],
                                       CreateStreamResultMsg(streams[s] + 1))
            /\ streams'[s] # streams[s] => DispatchStep(s, "createStream")
         ]_vars
    /\ [](\A s \in Clients :
            CreatedIds(out[s]) = [i \in 1..streams[s] |-> i])

\* one session was given the ids 1 and 2 and the other session the id 1
W_C12 ==
    \E s, t \in Clients :
        /\ s # t
        /\ CreatedIds(out[s]) = <<1, 2>>
        /\ CreatedIds(out[t]) = <<1>>

\* session s has been sent the _result of a connect
Connected(s) ==
    \E i \in DOMAIN out[s] : out[s][i] = ConnectResultMsg

\* C13: a publish on a session that has not been sent the _result of a
\* connect is answered with an onStatus error, leaves the registry as it
\* is and leaves the session waiting to be closed.
C13_PublishBeforeConnect ==
    [][\A s \in Clients :
          (DispatchStep(s, "publish") /\ ~Connected(s)) =>
              /\ Len(out'[s]) = Len(out[s]) + 1
              /\ LastOut(s)'.t = "onStatus"
              /\ LastOut(s)'.level = "error"
              /\ pc'[s] = "raise"
              /\ LiveUsers' = LiveUsers
      ]_vars

\* ------------------------------------------------------------ C14 .. C15
\* the Set Chunk Size message handed to the dispatcher in this step
SetChunkSizeStep(s) ==
    /\ Len(received'[s]) = Len(received[s]) + 1
    /\ received'[s][Len(received'[s])].type = RTMP_TYPE_SET_CHUNK_SIZE

SetChunkSizeValue(s) == FromBytesBig(received'[s][Len(received'[s])].payload)

\* C14: a Set Chunk Size with a value from 128 to 10485760 sets the inbound
\* chunk size and leaves the session reading; with any other value it
\* closes the session, leaves the chunk size as it was and leaves the
\* registry as it was.
C14_ChunkSizeRange ==
    [][\A s \in Clients :
          SetChunkSizeStep(s) =>
              IF CHUNK_SIZE <= SetChunkSizeValue(s)
                 /\ SetChunkSizeValue(s) <= MAX_CHUNK_SIZE
              THEN /\ chunk_size'[s] = SetChunkSizeValue(s)
                   /\ pc'[s] = "loop"
              ELSE /\ pc'[s] = "closed"
                   /\ chunk_size'[s] = chunk_size[s]
                   /\ LiveUsers' = LiveUsers
      ]_vars

\* C15: the payload buffered for a csid is never longer than the length
\* declared for it; every message handed to the dispatcher has a payload of
\* exactly its declared length, and the buffer of its csid is empty after
\* the step that hands it over.
C15_ReassembledLength ==
    /\ [](\A s \in Clients :
            /\ \A c \in DOMAIN IncomingPackets[s] :
                   Len(IncomingPackets[s][c].payload)
                       <= IncomingPackets[s][c].payload_length
            /\ \A i \in DOMAIN received[s] :
                   Len(received[s][i].payload) = received[s][i].length)
    /\ [][\A s \in Clients :
            received'[s] # received[s] =>
                IncomingPackets'[s][rx'[s].cid].payload = <<>>
         ]_vars

\* after a Set Chunk Size of 3, a message of 4 bytes was put together from
\* a chunk of 3 bytes and a fmt 2 or fmt 3 chunk of 1 byte
W_C15 ==
    \E s \in Clients :
        /\ chunk_size[s] = 3
        /\ Len(received[s]) = 2
        /\ received[s][2].length = 4
        /\ rx[s].fmt \in {2, 3}
        /\ rx[s].n = 1
        /\ IncomingPackets[s][rx[s].cid].payload = <<>>

\* ------------------------------------------------------------ C18 .. C19
\* C18: the csid of every chunk read is the low six bits of the first byte
\* when they are 2..63, 64 plus the second byte when they are 0, and 64 plus
\* the second byte plus 256 times the third byte when they are 1.
C18_BasicHeaderCsid ==
    \A s \in Clients : rx[s] # NoChunk => rx[s].cid = Cid_spec(rx[s].basic)

\* C19: the message stream id stored for a fmt 0 chunk is the little-endian
\* value of its four stream id bytes.
C19_StreamIdLittleEndian ==
    \A s \in Clients :
        (rx[s] # NoChunk /\ rx[s].fmt = 0) =>
            IncomingPackets[s][rx[s].cid].msg_stream_id
                = StreamIdOf_little(rx[s].sid)


\* ------------------------------------------------------------ C16 .. C17
\* the messages the Reader dispatched, its own Set Chunk Size left out
Relayed ==
    SelectSeq(received[Reader],
              LAMBDA p : p.type # RTMP_TYPE_SET_CHUNK_SIZE)

SameMessage(p, m) ==
    /\ p.stream_id = m.stream_id
    /\ p.type = m.type
    /\ p.timestamp = m.timestamp
    /\ p.payload = LoopPayload(m.size)

\* C16: once the Reader has read every byte writeMessage wrote, with the
\* chunk size of the writer, it has dispatched the messages that were
\* written, in order, each with the stream id, the type, the timestamp and
\* the payload it was written with.
C16_RoundTrip ==
    wire[Reader] = <<>> =>
        /\ Len(Relayed) = Len(sent[Writer])
        /\ \A i \in 1..Len(Relayed) : SameMessage(Relayed[i], sent[Writer][i])

\* messages of one stream, one type of audio or above and one size, with
\* timestamps that start above 0 and grow
Compressible(S) ==
    /\ Len(S) >= 1
    /\ S[1].timestamp > 0
    /\ \A i \in 1..Len(S) :
           /\ S[i].type >= AUDIO
           /\ S[i].stream_id = S[1].stream_id
           /\ S[i].type = S[1].type
           /\ S[i].size = S[1].size
    /\ \A i \in 1..(Len(S) - 1) : S[i].timestamp < S[i + 1].timestamp

\* C17: messages of one stream with one type and one size are written with
\* a fmt 0 header on the first chunk only, fmt 2 or fmt 3 on every later
\* one, and the Reader, once it has read them all, has dispatched as many
\* messages, with the timestamps they were written with.
C17_HeaderCompression ==
    Compressible(sent[Writer]) =>
        /\ wrote[Writer][1].fmt = 0
        /\ \A k \in 2..Len(wrote[Writer]) : wrote[Writer][k].fmt \in {2, 3}
        /\ wire[Reader] = <<>> =>
               /\ Len(Relayed) = Len(sent[Writer])
               /\ \A i \in 1..Len(Relayed) :
                      Relayed[i].timestamp = sent[Writer][i].timestamp

\* ------------------------------------------------------------------- C20
\* C20: the Reader reads an extended timestamp in exactly the chunks the
\* writer put one in (its k-th read of a written chunk against the k-th
\* chunk written), and the bytes left in its reader always start with a
\* whole chunk.
C20_ExtendedTimestamp ==
    /\ (reads[Reader] >= 2 /\ reads[Reader] - 1 <= Len(wrote[Writer])) =>
           rx[Reader].ext = wrote[Writer][reads[Reader] - 1].ext
    /\ (sent[Writer] # <<>> /\ wire[Reader] # <<>>) =>
           Readable(IncomingPackets[Reader], chunk_size[Reader], wire[Reader])

\* ------------------------------------------------------------------- C21
\* payload bytes buffered for csid 5
Buffered(s) ==
    IF 5 \in DOMAIN IncomingPackets[s]
    THEN Len(IncomingPackets[s][5].payload) ELSE 0

\* C21: every chunk read on csid 5 carries the smaller of the session's
\* chunk size and the bytes the message still lacks; with the chunk size
\* 4096 these are 4096 bytes on the fmt 0 chunk and 904 on the fmt 3
\* chunk; a Set Chunk Size read sets the chunk size for the chunks after
\* it; the message handed to the dispatcher has the 5000 bytes the client
\* sent, in order, and once every byte is read it has been handed over.
C21_ChunkPayload ==
    /\ [](\A s \in Clients :
             /\ (chunk_size[s] = 4096 /\ rx[s].cid = 5) =>
                    rx[s].n = (IF rx[s].fmt = 0 THEN 4096 ELSE 904)
             /\ \A i \in DOMAIN received[s] :
                    received[s][i].type = RTMP_TYPE_METADATA =>
                        received[s][i].payload = BigPayload
             /\ (pc[s] = "loop" /\ reads[s] > 0 /\ wire[s] = <<>>) =>
                    /\ received[s] # <<>>
                    /\ received[s][Len(received[s])].type = RTMP_TYPE_METADATA)
    /\ [][\A s \in Clients :
             /\ (reads'[s] = reads[s] + 1 /\ rx'[s].cid = 5) =>
                    rx'[s].n = Min(chunk_size[s], Len(BigPayload) - Buffered(s))
             /\ (reads'[s] = reads[s] + 1 /\ rx'[s].cid = PROTOCOL_CHANNEL_ID) =>
                    chunk_size'[s]
                        = FromBytesBig(received'[s][Len(received'[s])].payload)
         ]_vars

\* the message was read in two chunks, the second of 904 bytes
W_C21 ==
    \E s \in Clients :
        /\ chunk_size[s] = 4096
        /\ reads[s] = 3
        /\ rx[s].fmt = 3
        /\ rx[s].n = 904
        /\ Len(received[s]) = 2
        /\ received[s][2].payload = BigPayload
        /\ Len(received[s][2].payload) = 5000

\* ------------------------------------------------------------------- C22
\* C22: whenever a session waits for its next chunk with a window above 0,
\* the bytes counted since the last Acknowledgement are fewer than the
\* window and the acknowledged count is not above the counter; an
\* Acknowledgement is written in exactly the chunk steps that end with the
\* window reached, and it carries the counter.
C22_Acknowledgement ==
    /\ [](\A s \in Clients :
             (pc[s] = "loop" /\ window_acknowledgement_size[s] > 0) =>
                 /\ inAckSize[s] - inLastAck[s] < window_acknowledgement_size[s]
                 /\ inLastAck[s] <= inAckSize[s])
    /\ [][\A s \in Clients :
             (reads'[s] = reads[s] + 1 /\ pc'[s] # "closed") =>
                 IF /\ window_acknowledgement_size'[s] > 0
                    /\ inAckSize'[s] - inLastAck[s]
                           >= window_acknowledgement_size'[s]
                 THEN /\ out'[s] = Append(out[s], AckMsg(inAckSize'[s]))
                      /\ inLastAck'[s] = inAckSize'[s]
                      /\ pc'[s] = "ack"
                 ELSE out'[s] = out[s] /\ inLastAck'[s] = inLastAck[s]
         ]_vars

\* ------------------------------------------------------------------- C23
\* C23: after the step in which a chunk closes a session (a refused Set
\* Chunk Size, a message type above 22) the session's socket is closed,
\* it has no record in client_states and no entry in LiveUsers.
C23_ErrorCleanup ==
    [][\A s \in Clients :
          (reads'[s] = reads[s] + 1 /\ pc'[s] = "closed") =>
              /\ writer'[s] = "closed"
              /\ s \notin client_states'
              /\ \A i \in DOMAIN LiveUsers' : LiveUsers'[i].client_id # s
      ]_vars

\* ------------------------------------------------------------ C24 .. C26
\* C24: a session whose C0 was neither 3 nor 6 (the only place that closes
\* the writer) has been sent nothing, has had no chunk read, and once its
\* handling has ended its record is gone from client_states.
C24_BadVersion ==
    \A s \in Clients :
        writer[s] = "closed" =>
            /\ out[s] = <<>>
            /\ reads[s] = 0
            /\ pc[s] \in {"dead", "closed"} => s \notin client_states

\* the step that ends the handshake: the drain of S2 returns, or C2 of a
\* signed handshake is read
Completes(s) ==
    \/ pc[s] = "s2"
    \/ pc[s] = "c2_digest" /\ Len(wire[s]) - Len(wire'[s]) = RTMP_SIG_SIZE

PlainReplies(s) ==
    <<HandshakeBytes("S0", <<3>>), HandshakeBytes("S1", c1_data[s]),
      HandshakeBytes("S2", c1_data[s])>>

IsPlain(s) ==
    /\ c1_data[s] # <<>>
    /\ detectClientMessageFormat(c1_data[s]) = MESSAGE_FORMAT_0

\* C26: for a C1 of format 0 the session is sent S0 = 3, S1 = C1 and
\* S2 = C1, in this order and before anything else; when it enters the
\* message loop the 1536 bytes of C2 are gone from its reader, so that
\* what is left is what the client sent after C2; no chunk is read before
\* the message loop is entered, and none before S0, S1 and S2 were written.
C26_PlainHandshake ==
    /\ [](\A s \in Clients :
             /\ IsPlain(s) =>
                    /\ \A i \in 1..Min(3, Len(out[s])) :
                           out[s][i] = PlainReplies(s)[i]
                    /\ reads[s] > 0 => Len(out[s]) >= 3
             /\ pc[s] \in HandshakePcs \cup {"free"} => reads[s] = 0)
    /\ [][\A s \in Clients :
             /\ (IsPlain(s) /\ pc[s] \in HandshakePcs /\ pc'[s] = "loop") =>
                    /\ wire'[s] \in {<<>>, FirstChunk}
                    /\ Len(out[s]) = 3
             /\ reads'[s] # reads[s] => pc[s] = "loop"
         ]_vars

\* a format 0 handshake was completed and the first chunk read after it
W_C26 ==
    \E s \in Clients :
        /\ c1_data[s] = PlainC1(7)
        /\ Len(out[s]) >= 3
        /\ SubSeq(out[s], 1, 3) = PlainReplies(s)
        /\ reads[s] = 1
        /\ Len(received[s]) = 1
        /\ received[s][1].payload = FirstPayload
        /\ wire[s] = <<>>

\* ------------------------------------------------------------------- C27
\* all that the server holds for session t
WholeState(t) ==
    <<SessionState(t), chunk_size[t], IncomingPackets[t], inAckSize[t],
      inLastAck[t], window_acknowledgement_size[t], received[t], reads[t],
      wire[t], lastWriteHeaders[t], nextChannelId[t], audioSampleRate[t],
      audioChannels[t], writer[t], c1_data[t]>>

\* C27: a step in which a session is refused (it is left waiting to be
\* closed) or closed changes nothing of what the server holds for any
\* other session, does not take another session's record from
\* client_states, and leaves the registry entries of the other sessions
\* as they are, in their order.
C27_Isolation ==
    [][\A a \in Clients :
          (pc'[a] # pc[a] /\ pc'[a] \in {"raise", "closed"}) =>
              /\ \A b \in Clients \ {a} :
                     /\ WholeState(b)' = WholeState(b)
                     /\ b \in client_states <=> b \in client_states'
              /\ OthersEntries(LiveUsers', a) = OthersEntries(LiveUsers, a)
      ]_vars

\* a chunk of session a closed it while session b is a publisher that has
\* changed its chunk size
W_C27 ==
    \E a \in Clients : \E b \in Clients \ {a} :
        /\ pc[a] = "closed"
        /\ reads[a] = 1
        /\ received[a] = <<>>
        /\ pc[b] = "loop"
        /\ chunk_size[b] # CHUNK_SIZE
        /\ \E i \in DOMAIN LiveUsers : LiveUsers[i].client_id = b

\* ------------------------------------------------------------------- C28
\* C28: a second run of disconnect for a session leaves the registry, the
\* session table and the sockets as the first run left them.
C28_CloseIdempotent ==
    [][\A s \in Clients :
          DisconnectAgain(s) =>
              /\ LiveUsers' = LiveUsers
              /\ client_states' = client_states
              /\ writer' = writer
      ]_vars

\* ------------------------------------------------------------ C29 .. C30
\* sequence headers that are cut short or malformed
BrokenAudioKinds == {"aac_seq_cut"}
BrokenVideoKinds == {"avc_seq_no_sps", "avc_seq_cut"}

\* C29: an audio or video message whose sequence header is cut short or
\* malformed leaves the session reading, with the payload cached as the
\* sequence header.
C29_MalformedSequenceHeader ==
    [][\A s \in Clients :
          /\ (DispatchStep(s, "audio") /\ last'[s].a1 \in BrokenAudioKinds) =>
                 pc'[s] = "loop" /\ aacSequenceHeader'[s]
          /\ (DispatchStep(s, "video") /\ last'[s].a1 \in BrokenVideoKinds) =>
                 pc'[s] = "loop" /\ avcSequenceHeader'[s]
      ]_vars

\* C30: the AudioSpecificConfig 0x12 0x10 decodes to object type 2, sample
\* rate 44100 and 2 channels, and after an AAC sequence header that carries
\* it the session's audio descriptor holds the sample rate 44100 and the
\* channel count 2.
C30_AacDescriptor ==
    /\ read_aac_specific_config(AudioPayload("aac_seq"))
           = [object_type |-> 2, sample_rate |-> 44100, channels |-> 2]
    /\ [][\A s \in Clients :
            (DispatchStep(s, "audio") /\ last'[s].a1 = "aac_seq") =>
                /\ audioSampleRate'[s] = 44100
                /\ audioChannels'[s] = 2
         ]_vars

\* ------------------------------------------------------------------- C32
\* C32: a connect dispatched on a session that has been sent the _result
\* of a connect leaves the session's app as it is, so that every registry
\* entry of the session is still kept under the app the session has.
C32_ConnectOnce ==
    [][\A s \in Clients :
          (DispatchStep(s, "connect") /\ Connected(s)) =>
              /\ app'[s] = app[s]
              /\ \A i \in DOMAIN LiveUsers' :
                     LiveUsers'[i].client_id = s =>
                         LiveUsers'[i].app = app'[s]
      ]_vars

\* ------------------------------------------------------------------- C33
\* the Abort message handed to the dispatcher in this step
AbortStep(s) ==
    /\ Len(received'[s]) = Len(received[s]) + 1
    /\ received'[s][Len(received'[s])].type = 2

AbortedCsid(s) == FromBytesBig(received'[s][Len(received'[s])].payload)

\* C33: the step that dispatches an Abort message leaves the buffer of the
\* csid it names empty and the buffers of the other csids as they were;
\* no message dispatched later holds bytes buffered for that csid before
\* (the bytes 7 of csid 4, the bytes 8 of csid 5, where the client went on
\* with bytes 9).
C33_Abort ==
    /\ [][\A s \in Clients :
             AbortStep(s) =>
                 \A c \in DOMAIN IncomingPackets[s] \ {PROTOCOL_CHANNEL_ID} :
                     IncomingPackets'[s][c].payload =
                         IF c = AbortedCsid(s) THEN <<>>
                         ELSE IncomingPackets[s][c].payload
         ]_vars
    /\ [](\A s \in Clients : \A i \in DOMAIN received[s] :
             \A j \in DOMAIN received[s][i].payload :
                 received[s][i].payload[j] = 9 =>
                     received[s][i].payload[1] = 9)

\* ------------------------------------------------------------ C34 .. C35
\* C34: after a fmt 2 chunk the message in the works on its csid is made
\* of the bytes of that chunk only: if the chunk completes a message, the
\* dispatched payload is the chunk's payload, else the buffer holds the
\* chunk's payload and nothing else; length, type and stream id are those
\* the csid had.
C34_Fmt2NewMessage ==
    [][\A s \in Clients :
          (reads'[s] = reads[s] + 1 /\ rx'[s].fmt = 2 /\ pc'[s] # "closed"
           /\ rx'[s].cid \in DOMAIN IncomingPackets[s]) =>
              LET c == rx'[s].cid
                  old == IncomingPackets[s][c]
                  new == IncomingPackets'[s][c]
              IN /\ new.payload_length = old.payload_length
                 /\ new.msg_type_id = old.msg_type_id
                 /\ new.msg_stream_id = old.msg_stream_id
                 /\ IF received'[s] # received[s]
                    THEN Len(received'[s][Len(received'[s])].payload)
                             = rx'[s].n
                    ELSE Len(new.payload) = rx'[s].n
      ]_vars

\* C35: a chunk that is the first on its csid and has no fmt 0 header
\* hands no message to the dispatcher.
C35_NoDispatchWithoutFmt0 ==
    [][\A s \in Clients :
          (reads'[s] = reads[s] + 1
           /\ rx'[s].cid \notin DOMAIN IncomingPackets[s]
           /\ rx'[s].fmt # 0) =>
              received'[s] = received[s]
      ]_vars

\* ------------------------------------------------------------------- C40
\* bytes the message of the chunk read in this step still lacked: the
\* declared length with a fmt 0 or fmt 1 header, else what the csid had
\* declared less what it had buffered
LeftBefore(s) ==
    LET c == rx'[s].cid
    IN IF rx'[s].fmt <= 1 THEN IncomingPackets'[s][c].payload_length
       ELSE IF c \in DOMAIN IncomingPackets[s]
       THEN IncomingPackets[s][c].payload_length
                - Len(IncomingPackets[s][c].payload)
       ELSE 0

\* C40: a chunk of a type up to 22 whose message lacks no byte reads no
\* payload, hands nothing to the dispatcher, leaves the buffer of its csid
\* empty, writes no Acknowledgement and leaves the acknowledged count as
\* it was, and the session goes on reading.
C40_ZeroLength ==
    [][\A s \in Clients :
          (reads'[s] = reads[s] + 1
           /\ ~BadType(IncomingPackets'[s][rx'[s].cid])
           /\ LeftBefore(s) <= 0) =>
              /\ rx'[s].n = 0
              /\ received'[s] = received[s]
              /\ IncomingPackets'[s][rx'[s].cid].payload = <<>>
              /\ out'[s] = out[s]
              /\ inLastAck'[s] = inLastAck[s]
              /\ ops'[s] = ops[s]
              /\ pc'[s] = "loop"
      ]_vars

\* a chunk of declared length 0 was read with the window of 3 bytes
\* passed, and no Acknowledgement was written for it
W_C40 ==
    \E s \in Clients :
        /\ pc[s] = "loop"
        /\ reads[s] >= 2
        /\ rx[s].n = 0
        /\ rx[s].fmt <= 1
        /\ window_acknowledgement_size[s] = 3
        /\ inAckSize[s] - inLastAck[s] >= 3

\* ------------------------------------------------------------ C36 .. C37
\* writeMessage ran for session s in this step
WriteStep(s) == Len(sent'[s]) = Len(sent[s]) + 1

\* the message it wrote and the bytes it handed to send()
Written(s) == sent'[s][Len(sent'[s])]
WrittenBytes(r) == SubSeq(wire'[r], Len(wire[r]) + 1, Len(wire'[r]))

\* C36: a message of a type below 8 starts with the byte 2 (fmt 0 on csid
\* 2); a message of a type from 8 on is written on the channel kept for
\* its stream id, which is 3 or above and the one the stream id had
\* before; no two stream ids are kept with one channel.
C36_OutboundCsid ==
    /\ [][WriteStep(Writer) =>
             LET m == Written(Writer)
                 b == WrittenBytes(Reader)
                 H == lastWriteHeaders[Writer]
                 H1 == lastWriteHeaders'[Writer]
             IN /\ b # <<>>
                /\ m.type < AUDIO => b[1] = PROTOCOL_CHANNEL_ID
                /\ m.type >= AUDIO =>
                       /\ b[1] % 64 = H1[m.stream_id].channel
                       /\ b[1] % 64 >= 3
                /\ \A sid \in DOMAIN H : H1[sid].channel = H[sid].channel
         ]_vars
    /\ [](\A s \in Clients :
             \A x \in DOMAIN lastWriteHeaders[s] :
                 \A y \in DOMAIN lastWriteHeaders[s] :
                     lastWriteHeaders[s][x].channel
                         = lastWriteHeaders[s][y].channel => x = y)

\* messages of types 20 and 22 were written on two stream ids, on the
\* channels 3 and 4
W_C36 ==
    /\ Len(sent[Writer]) = 2
    /\ sent[Writer][1].type >= AUDIO
    /\ sent[Writer][2].type >= AUDIO
    /\ DOMAIN lastWriteHeaders[Writer] = {1, 2}
    /\ {lastWriteHeaders[Writer][1].channel,
        lastWriteHeaders[Writer][2].channel} = {3, 4}

\* length of the message header of a chunk, after the basic header
MessageHeaderLen(first, time) ==
    (IF first \div 64 = 0 THEN 11 ELSE IF first \div 64 = 1 THEN 7 ELSE 3)
    + (IF time >= EXT_TIMESTAMP THEN 4 ELSE 0)

\* C37: the bytes written for a message of n > 0 payload bytes are: one
\* basic header byte with fmt 0, 1 or 2 and its message header, the first
\* min(n, out_chunk_size) payload bytes, and then, for every further
\* out_chunk_size bytes or rest of them, the one byte 0xC0 + csid and
\* these payload bytes.
C37_OutboundChunks ==
    [][WriteStep(Writer) =>
          LET m == Written(Writer)
              b == WrittenBytes(Reader)
              data == LoopPayload(m.size)
              k == (m.size + OUT_CHUNK_SIZE - 1) \div OUT_CHUNK_SIZE
              h == Len(b) - m.size - (k - 1)
              at(j) == h + (j - 1) * (OUT_CHUNK_SIZE + 1)
              len(j) == Min(OUT_CHUNK_SIZE, m.size - (j - 1) * OUT_CHUNK_SIZE)
          IN /\ b[1] \div 64 \in {0, 1, 2}
             /\ h >= 4
             /\ h \in {1 + MessageHeaderLen(b[1], t) : t \in {0, EXT_TIMESTAMP}}
             /\ \A j \in 1..k :
                    /\ SubSeq(b, at(j) + 1, at(j) + len(j))
                           = SubSeq(data, (j - 1) * OUT_CHUNK_SIZE + 1,
                                    (j - 1) * OUT_CHUNK_SIZE + len(j))
                    /\ j > 1 => b[at(j)] = SEPARATOR + (b[1] % 64)
             /\ Len(b) = at(k) + len(k)
      ]_vars

\* a message of three chunks with a timestamp of 0xFFFFFF was written
W_C37 ==
    /\ sent[Writer] # <<>>
    /\ sent[Writer][Len(sent[Writer])].size = 2 * OUT_CHUNK_SIZE + 1
    /\ sent[Writer][Len(sent[Writer])].timestamp = EXT_TIMESTAMP
    /\ Len(wrote[Writer]) >= 3


\* the step is one call of get_chunk_data by session s
TimedChunk(s) == reads'[s] = reads[s] + 1

\* p is the start of q
StartsWith(q, p) == Len(p) <= Len(q) /\ SubSeq(q, 1, Len(p)) = p

Cursor(b) == 8 * b.bufpos + b.bufoff

\* the step is a call of read
ReadCall == bitop' # bitop /\ bitop'.call = "read"

\* C38: read(n) sets the error flag and returns 0 when n < 0 or when the n
\* bits end beyond the buffer; a read that follows a failed read fails too;
\* look(n) returns what read(n) returns and leaves the cursor where it was.
C38_BitopSticky ==
    [][/\ (/\ ReadCall
           /\ \/ bitop'.n < 0
              \/ Cursor(bitop) + bitop'.n > 8 * Len(bitop.buffer))
              => bitop'.iserro /\ bitop'.v = 0
       /\ (/\ ReadCall
           /\ bitop.call = "read" /\ bitop.n # 0 /\ bitop.iserro)
              => bitop'.iserro /\ bitop'.v = 0
       /\ (bitop' # bitop /\ bitop'.call = "look")
              => /\ bitop'.v = Bitop_read(bitop, bitop'.n, 0).v
                 /\ bitop'.v = (IF bitop'.n < 0 THEN 0
                                ELSE BitRead(bitop.buffer, Cursor(bitop),
                                             bitop'.n))
                 /\ Cursor(bitop') = Cursor(bitop)
                 /\ bitop'.bufpos = bitop.bufpos]_vars

\* C31: parsing the AVC sequence header of a stream yields width =
\* (pic_width_in_mbs_minus1 + 1) * 16 - 2 * (crop_left + crop_right), height
\* = (2 - frame_mbs_only) * (pic_height_in_map_units_minus1 + 1) * 16
\* - 2 * (crop_top + crop_bottom) and the level of the stream (in tenths):
\* 1920, 1080 and 3.1 for the 1920x1080 baseline stream of level 31.
C31_AvcSequenceHeader ==
    LET f == avc_info.fields
        crop == IF f.crop = <<>> THEN <<0, 0, 0, 0>> ELSE f.crop
    IN f # NoFields =>
        /\ avc_info.result.width = f.w * 16 - 2 * (crop[1] + crop[2])
        /\ avc_info.result.height =
               (2 - f.frame_mbs_only) * f.h * 16 - 2 * (crop[3] + crop[4])
        /\ avc_info.result.level = f.level
        /\ f = FullHD => /\ avc_info.result.width = 1920
                         /\ avc_info.result.height = 1080
                         /\ avc_info.result.level = 31
====
